---- MODULE Spec2Model ----
(***************************************************************************)
(* A model of the multitables parallel read engine: the Reader front end   *)
(* (request, close, stop, worker processes, monitor and dispatch threads), *)
(* the Stage lock, the Request handle, the SharedQueue ring and the        *)
(* Streamer built on top of them.                                          *)
(***************************************************************************)
EXTENDS Integers, Sequences, FiniteSets, TLC

\* ------------------------------------------------------------- bounds
NProcs == 2        \* n_procs: worker processes of a Reader
NStages == 2       \* stages created by the caller
NCallers == 1      \* threads that call Reader.request
MaxReq == 2        \* calls of Reader.request that get past the close check
QueueLen == 1      \* slots of a SharedQueue ring (queue_len)
MaxAccess == 2     \* result scopes opened on one Request
MaxCalls == 2      \* calls of close()/stop() by the controlling thread
RingLen == 3       \* blocks of the ring taken alone (queue_len)
ElemSize == 1      \* bytes of one block of the ring (elem_size)
NProducers == 2    \* threads that put into the ring
MaxPuts == 2       \* values put by one producer
MaxIssue == 4      \* requests issued by the Streamer's request_spool
MaxLen == 4        \* rows of the streamed dataset at most
BlockSize == 2     \* block_size of the Streamer
MaxPoolReq == 3    \* requests made with a StagePool as their stage
NConsumers == 2    \* threads that call Streamer.Queue.get on one queue
MaxLoops == 2      \* consumer loops one thread runs on the queue, one after another
MaxKeys == 3       \* keys of one indexing expression on a dataset
MaxAsync == 3      \* calls of put and put_async by one producer thread
MaxBlock == 3      \* largest block_size of a cyclic queue
MinLen == 1        \* shortest dataset of a cyclic queue
MaxGets == 3       \* calls of get_direct(block=False)
MaxTries == 3      \* calls of put by one producer on a queue used without blocking
NParties == 3      \* n_procs of the legacy streamer
MaxRounds == 2     \* rounds of the legacy Barrier that are counted
CircSize == 2      \* queue_size (read_ahead) of the legacy SharedCircBuf
NWriters == 2      \* processes that write into the SharedCircBuf
NReaders == 2      \* threads that read from the SharedCircBuf

Procs == 1..NProcs
Stages == 1..NStages
Callers == 1..NCallers
ReqIds == 0..((IF MaxReq > MaxIssue THEN MaxReq ELSE MaxIssue) - 1)
Ops == {"ok", "bad"}          \* a key the node can serve, a key that raises
FailOps == {"ok", "bad", "large", "strict"}   \* also: a result larger than the stage, an error whose class takes arguments
KeyOps == {"ok", "big"}       \* served keys: one that fits a descriptor, one that does not
\* threads that run Reader.Core.close: the controlling thread, notify_spool,
\* the Streamer's request_spool
Closers == {"ctl", "disp", "sub"}

\* ------------------------------------------------------------- messages
\* One record shape for request descriptors and notifications.
Msg(t, id, map, op) == [t |-> t, id |-> id, map |-> map, op |-> op]
NoMsg == Msg("none", -1, 0, "none")
\* request_packer.pack(QueueClosed)
QCMsg == Msg("QC", -1, 0, "none")
\* RequestDetails(req_id, key, shm_buf)
RequestDetails(r, s, op) == Msg("req", r, s, op)
\* return_packer.pack((req_id, dtype, shape))
ResultNote(r) == Msg("res", r, 0, "none")
\* return_packer.pack((e,)) with e.__req_id__ = r (-1 is None)
ExcNoteOf(r, e) == Msg("exc", r, 0, e)

ExcNote(r) == ExcNoteOf(r, "error")

VARIABLES
    closeEv,      \* Reader.Core._close
    stopEv,       \* Reader.Core._stop
    reqQ,         \* Reader.Core._queue: the occupied ring slots, tail first
    putBuf,       \* _queue._put_buffer of the requesting process
    bufHeld,      \* the bytes _buffer_thread has popped and is putting
    notifyQ,      \* Reader.Core._notify: the occupied ring slots, tail first
    nextReqId,    \* Reader.Core._next_req_id
    openReqs,     \* keys of Reader.Core._open_reqs_dict
    req,          \* the Request objects, by req_id
    stageLock,    \* Stage._lock, by stage
    shmBuf,       \* stage buffers: data, the req_id whose result is in it (-1 none,
                  \* -2 anything else), key, the req_id whose packed key is in it
    caller,       \* threads inside Reader.Core.request
    wk,           \* worker processes
    monDone,      \* the monitor thread has pushed (QueueClosed,)
    dispPc,       \* the notify_spool thread
    cl,           \* position of each closing thread inside close()
    ctl,          \* the controlling thread: kind of call, calls made
    cfg,          \* the notify callback the Reader was constructed with
    reqPool,      \* RequestPool._queue of the Streamer
    sqSlots,      \* SharedQueue._vals: the blocks of the ring (flag, bytes, writer)
    sqTail,       \* SharedQueue._tail
    sqSize,       \* SharedQueue._size
    sqSide,       \* SharedQueue._side_channel
    sqProd,       \* producer threads of the ring: puts done, position in put
    sqOut,        \* the values get_direct has yielded, in order
    strm,         \* Streamer request_spool thread: position, cursor i, _stop
    issued,       \* the blocks request_spool has requested, by req_id + 1
    stagePool,    \* StagePool._stage_pool
    cons,         \* the consumer of Streamer.Queue: position, request in hand
    got,          \* what Streamer.Queue.get has returned, in order
    out,          \* the batches the consumer has copied, in order
    shmFlag,      \* SharedBuffer: the flag byte of each stage's segment
    shmMaster,    \* SharedBuffer: the master handle of each segment, in cleanup()
    shmAtt,       \* worker processes: the attachment to each segment (bufs[map_id])
    cthr,         \* consumer threads of one Streamer.Queue: position, request in
                  \* hand, loops ended
    dsop,         \* the object an indexing expression on a dataset has built
    dsexpr,       \* the keys of that expression, in the order they were applied
    bcount,       \* BarrierImpl.count of the two barriers of a legacy Barrier
    bproc,        \* the legacy read processes at the Barrier: position, own barrier_A
    cbq,          \* SharedCircBuf.write_queue and read_queue (SafeQueue contents)
    cbthr         \* the threads on a SharedCircBuf: position, index held by the guard

\* the variables of a SharedQueue ring taken alone
ringVars == <<sqSlots, sqTail, sqSize, sqSide, sqProd, sqOut>>

\* the variables of the Streamer
streamVars == <<strm, issued, stagePool, cons, got, out>>

\* the variables of the shared memory segments taken alone
segVars == <<shmFlag, shmMaster, shmAtt>>

\* the consumer threads that share a Streamer.Queue
thrVars == <<cthr>>

\* an indexing expression on a dataset proxy
opVars == <<dsop, dsexpr>>

\* the legacy single-file streamer (multitables.py)
legacyVars == <<bcount, bproc, cbq, cbthr>>

\* the variables no Reader operation touches
ext == <<cfg, ringVars, streamVars, segVars, thrVars, opVars, legacyVars>>

vars == <<closeEv, stopEv, reqQ, putBuf, bufHeld, notifyQ, nextReqId, openReqs,
          req, stageLock, shmBuf, caller, wk, monDone, dispPc, cl, ctl, reqPool, ext>>

\* ------------------------------------------------------------- Request
\* Request.__init__ (meta: dtype/shape set, exc: the failure, acc: scopes
\* entered and exited; history of the request: cnt counts the _notify calls,
\* early: request() returned before any close() was called, overlap: another
\* request held the same stage during its life)
NewRequest(s) ==
    [stage |-> s, ready |-> FALSE, meta |-> FALSE, exc |-> "none",
     acc |-> 0, cnt |-> 0, early |-> FALSE, overlap |-> FALSE, raised |-> {},
     proxy |-> "none", left |-> "none", res |-> [name |-> "none", result |-> "none"]]

NoRequest == NewRequest(0)

\* Request._notify(dtype, shape, e)
Notify(rq, hasMeta, e) ==
    [rq EXCEPT !.meta = hasMeta, !.exc = e, !.ready = TRUE,
               !.cnt = IF rq.cnt < 2 THEN rq.cnt + 1 ELSE 2]

\* a dispatcher that forgets the del: the entry stays in the table
RemoveEntry_keep(table, r) == table

\* del open_reqs[req_id]
RemoveEntry(table, r) == table \ {r}

Issued == {r \in ReqIds : r < nextReqId}

\* requests that have a claim on stage s: acquired, first scope not left
LiveOn(s) == {r \in Issued : req[r].stage = s /\ req[r].acc < 2}

\* ------------------------------------------------------------- SharedQueue
\* _put_shared's wait condition: size < queue_len
Room(q) == Len(q) < cfg.qlen

\* SharedQueue.put(block=False): flush _put_buffer while there is room
RECURSIVE Flush(_, _)
Flush(q, buf) ==
    IF buf # <<>> /\ Room(q) THEN Flush(Append(q, Head(buf)), Tail(buf))
    ELSE [q |-> q, buf |-> buf]

\* SharedQueue.put_async: put(block=False), on Full append to _put_buffer
PutAsync(q, buf, m) ==
    LET f == Flush(q, buf) IN
    IF f.buf = <<>> /\ Room(f.q)
    THEN [q |-> Append(f.q, m), buf |-> <<>>]
    ELSE [q |-> f.q, buf |-> Append(f.buf, m)]

\* ------------------------------------------------------------- the ring
\* the Reader, its threads and the Streamer stay as they are
ReaderIdle ==
    UNCHANGED <<closeEv, stopEv, reqQ, putBuf, bufHeld, notifyQ, nextReqId, openReqs,
                req, stageLock, shmBuf, caller, wk, monDone, dispPc, cl, ctl, reqPool,
                cfg, streamVars, segVars, thrVars, opVars, legacyVars>>

\* A SharedQueue taken alone, with its blocks, indices and side channel.
Producers == 1..NProducers
\* the k-th value put by producer p, len bytes long
Bytes(p, k, len) == [p |-> p, k |-> k, len |-> len]
NoBytes == Bytes(0, 0, 0)
\* lengths of the values put: one that fits a block, one that does not
Lens == {ElemSize, ElemSize + 1}

\* SharedQueue.__init__
RingInit ==
    /\ sqSlots = [i \in 0..(RingLen - 1) |-> [flag |-> FALSE, data |-> NoBytes, by |-> NoBytes]]
    /\ sqTail = 0
    /\ sqSize = 0
    /\ sqSide = <<>>
    /\ sqProd = [p \in Producers |-> [k |-> 0, side |-> NoBytes]]
    /\ sqOut = <<>>

\* a head computed from the size alone
HeadIndex_size == sqSize % RingLen

\* _place_block: head = (tail + size) % queue_len
HeadIndex == (sqTail + sqSize) % RingLen

\* _place_block: the flag is always written, the bytes only without the flag
\* (by: the value whose put wrote the block, kept for the record)
PlaceBlock(slots, b, flag) ==
    [slots EXCEPT ![HeadIndex] =
        [flag |-> flag, data |-> IF flag THEN @.data ELSE b, by |-> b]]

\* _put_sync: values longer than elem_size go through the side channel
Oversize(b) == b.len > ElemSize

\* put(bytes, block=True) -> _put_sync -> _put_shared: waits until
\* size < queue_len, then places the block under _vals_lock
RingPut(p, len) ==
    /\ sqProd[p].side = NoBytes
    /\ sqProd[p].k < MaxPuts
    /\ sqSize < RingLen
    /\ LET b == Bytes(p, sqProd[p].k + 1, len) IN
       /\ sqSlots' = PlaceBlock(sqSlots, b, Oversize(b))
       /\ sqSize' = sqSize + 1
       /\ sqProd' = [sqProd EXCEPT ![p].k = @ + 1,
                                   ![p].side = IF Oversize(b) THEN b ELSE NoBytes]
    /\ UNCHANGED <<sqTail, sqSide, sqOut>>
    /\ ReaderIdle

\* _put_sync: self._side_channel.put(bytes), after _put_shared has returned
RingSidePut(p) ==
    /\ sqProd[p].side # NoBytes
    /\ sqSide' = Append(sqSide, sqProd[p].side)
    /\ sqProd' = [sqProd EXCEPT ![p].side = NoBytes]
    /\ UNCHANGED <<sqSlots, sqTail, sqSize, sqOut>>
    /\ ReaderIdle

\* get_direct: the value of the tail block, from the side channel when flagged
TailValue == IF sqSlots[sqTail].flag THEN Head(sqSide) ELSE sqSlots[sqTail].data

\* get_direct(block=True): under _vals_lock wait for size > 0, read the tail
\* block (a flagged block waits for the side channel), yield the value, then
\* advance the tail
RingGet ==
    /\ sqSize > 0
    /\ sqSlots[sqTail].flag => sqSide # <<>>
    /\ sqOut' = Append(sqOut, TailValue)
    /\ sqSide' = IF sqSlots[sqTail].flag THEN Tail(sqSide) ELSE sqSide
    /\ sqTail' = (sqTail + 1) % RingLen
    /\ sqSize' = sqSize - 1
    /\ UNCHANGED <<sqSlots, sqProd>>
    /\ ReaderIdle

\* ------------------------------------------------------------- Reader.request
\* a thread inside Reader.request: idle between calls, err the last call's error
Idle(e) == [pc |-> "idle", stage |-> 0, op |-> "none", err |-> e, id |-> -1]

closeCalled == closeEv \/ \E k \in Closers : cl[k] # "idle"

InFlightCalls == Cardinality({d \in Callers : caller[d].pc = "acquire"})

\* a request() that never looks at the close event
IsClosed_never == FALSE

\* request(): self._close.is_set()
IsClosed == closeEv

\* request(): the check of the close event
RequestBegin(c, s, o) ==
    /\ caller[c].pc = "idle"
    /\ nextReqId + InFlightCalls < MaxReq
    /\ caller' = [caller EXCEPT ![c] =
                    IF IsClosed
                    THEN [@ EXCEPT !.err = "RuntimeError"]
                    ELSE [pc |-> "acquire", stage |-> s, op |-> o, err |-> "none", id |-> -1]]
    /\ UNCHANGED <<closeEv, stopEv, reqQ, putBuf, bufHeld, notifyQ, nextReqId,
                   openReqs, req, stageLock, shmBuf, wk, monDone, dispPc, cl, ctl, reqPool, ext>>

\* Stage._acquire: self._lock.acquire(False)
TryLock(locks, s) == [locks EXCEPT ![s] = TRUE]

\* request(): the key travels in the stage when it is too large for a slot of
\* the request queue; the descriptor then carries key = None
Packed(o) == IF o = "big" THEN "staged" ELSE o

\* request() after the check: stage._acquire() (RuntimeError when the lock is
\* taken), request_packer.pack(key) (TypeError for a key of a type the
\* serialiser does not know, which ends the call), then under _open_reqs the
\* req_id is allocated and the Request recorded, then _put_queue(details);
\* return req, or with the key in the stage the writes of the key are still
\* to come
RequestIssue(c) ==
    /\ caller[c].pc = "acquire"
    /\ IF stageLock[caller[c].stage]
       THEN /\ caller' = [caller EXCEPT ![c] = Idle("RuntimeError")]
            /\ UNCHANGED <<stageLock, req, openReqs, nextReqId, reqQ, putBuf>>
       ELSE IF caller[c].op = "unpackable"
       THEN /\ stageLock' = TryLock(stageLock, caller[c].stage)
            /\ caller' = [caller EXCEPT ![c] = Idle("TypeError")]
            /\ UNCHANGED <<req, openReqs, nextReqId, reqQ, putBuf>>
       ELSE LET id == nextReqId
                s == caller[c].stage
                p == PutAsync(reqQ, putBuf, RequestDetails(id, s, Packed(caller[c].op)))
            IN /\ stageLock' = TryLock(stageLock, s)
               /\ req' = [r \in ReqIds |->
                            IF r = id
                            THEN [NewRequest(s) EXCEPT
                                    !.overlap = LiveOn(s) # {}, !.early = ~closeCalled]
                            ELSE IF r \in LiveOn(s) THEN [req[r] EXCEPT !.overlap = TRUE]
                            ELSE req[r]]
               /\ openReqs' = openReqs \cup {id}
               /\ nextReqId' = nextReqId + 1
               /\ reqQ' = p.q
               /\ putBuf' = p.buf
               /\ caller' = [caller EXCEPT ![c] =
                               IF caller[c].op = "big"
                               THEN [@ EXCEPT !.pc = "writekey", !.id = id]
                               ELSE Idle("none")]
    /\ UNCHANGED <<closeEv, stopEv, bufHeld, notifyQ, shmBuf, wk, monDone, dispPc,
                   cl, ctl, reqPool, ext>>

\* the buffer after buf[-4:] = len(keydata); buf[:len(keydata)] = keydata
WriteKey(buf, s, id) ==
    [buf EXCEPT ![s] = [data |-> IF @.data = -1 THEN -1 ELSE -2, key |-> id]]

\* request() with the key in the stage: after _put_queue(details) the key and
\* its length are written into the buffer, return req
RequestWriteKey(c) ==
    /\ caller[c].pc = "writekey"
    /\ shmBuf' = WriteKey(shmBuf, caller[c].stage, caller[c].id)
    /\ caller' = [caller EXCEPT ![c] = Idle("none")]
    /\ UNCHANGED <<closeEv, stopEv, reqQ, putBuf, bufHeld, notifyQ, nextReqId, openReqs,
                   req, stageLock, wk, monDone, dispPc, cl, ctl, reqPool, ext>>

\* SharedQueue._buffer_thread: popleft under _put_buffer_cvar
BufferPop ==
    /\ putBuf # <<>>
    /\ bufHeld = NoMsg
    /\ bufHeld' = Head(putBuf)
    /\ putBuf' = Tail(putBuf)
    /\ UNCHANGED <<closeEv, stopEv, reqQ, notifyQ, nextReqId, openReqs, req, stageLock,
                   shmBuf, caller, wk, monDone, dispPc, cl, ctl, reqPool, ext>>

\* SharedQueue._buffer_thread: _put_sync(bytes, block=True)
BufferPut ==
    /\ bufHeld # NoMsg
    /\ Room(reqQ)
    /\ reqQ' = Append(reqQ, bufHeld)
    /\ bufHeld' = NoMsg
    /\ UNCHANGED <<closeEv, stopEv, putBuf, notifyQ, nextReqId, openReqs, req, stageLock,
                   shmBuf, caller, wk, monDone, dispPc, cl, ctl, reqPool, ext>>

\* ------------------------------------------------------------- Request access
\* Stage._release: self._lock.release() (an unlocked lock raises and stays unlocked)
Unlock(locks, s) == [locks EXCEPT ![s] = FALSE]

\* exception classes whose constructor cannot be called without arguments
NeedsArgs == {"UnicodeDecodeError"}

\* CreateSubprocessException(cause): the classes the returned object is an
\* instance of. SubprocessExceptionImpl(type(cause), SubprocessException) is
\* built by SubprocessExceptionImpl(), whose __init__ calls
\* super().__init__() with no argument: a cause whose class takes arguments
\* makes that call raise TypeError
CreateSubprocessException(e) ==
    IF e \in NeedsArgs THEN {"TypeError"} ELSE {e, "SubprocessException"}

\* Request.get_unsafe: wait for _ready, enter the scope of _stage._release();
\* a failed request raises inside the scope, which releases the stage at once
AccessEnter(r) ==
    /\ r \in Issued
    /\ req[r].ready
    /\ req[r].acc % 2 = 0
    /\ req[r].acc < 2 * MaxAccess
    /\ IF req[r].exc # "none"
       THEN /\ req' = [req EXCEPT ![r].acc = @ + 2,
                                   ![r].raised = CreateSubprocessException(req[r].exc)]
            /\ stageLock' = Unlock(stageLock, req[r].stage)
       ELSE /\ req' = [req EXCEPT ![r].acc = @ + 1]
            /\ UNCHANGED stageLock
    /\ UNCHANGED <<closeEv, stopEv, reqQ, putBuf, bufHeld, notifyQ, nextReqId, openReqs,
                   shmBuf, caller, wk, monDone, dispPc, cl, ctl, reqPool, ext>>

\* Request.get_unsafe: the scope is left, Stage._release's finally runs
AccessExit(r) ==
    /\ r \in Issued
    /\ req[r].acc % 2 = 1
    /\ req' = [req EXCEPT ![r].acc = @ + 1]
    /\ stageLock' = Unlock(stageLock, req[r].stage)
    /\ UNCHANGED <<closeEv, stopEv, reqQ, putBuf, bufHeld, notifyQ, nextReqId, openReqs,
                   shmBuf, caller, wk, monDone, dispPc, cl, ctl, reqPool, ext>>

\* ------------------------------------------------------------- ResourceWrapper
\* operations tried on a proxy: special methods, attributes of the array, and
\* the names ReleasedResource treats apart
ProxyOps == {"__getitem__", "__len__", "__add__", "shape", "copy",
             "__qualname__", "__doc__", "__class__"}

\* the names taken out of _DUNDER_METHODS: ReleasedResource keeps object's own
KeptNames == {"__class__", "__init__", "__new__", "__doc__", "__getattribute__"}

\* a stub that raises for every name but the kept ones
Released_strict(name) ==
    IF name \in KeptNames THEN "default" ELSE "ReleasedResourceError"

\* ReleasedResource: every method of _DUNDER_METHODS is
\* _raise_released_resource_error, __getattr__ raises AttributeError for
\* __qualname__ and ReleasedResourceError for any other missing attribute
Released(name) ==
    IF name \in KeptNames THEN "default"
    ELSE IF name = "__qualname__" THEN "AttributeError"
    ELSE "ReleasedResourceError"

\* an operation on a ResourceWrapper: forwarded to __wrapped__, which is the
\* array inside the scope and a ReleasedResource after release()
ProxyOp(state, name) == IF state = "live" THEN "value" ELSE Released(name)

\* Request.get_proxy: the scope of get_unsafe is entered (a failed request
\* raises there and the stage is released at once) and
\* ResourceWrapper(data) is yielded
ProxyEnter(r) ==
    /\ r \in Issued
    /\ req[r].ready
    /\ req[r].acc = 0
    /\ IF req[r].exc # "none"
       THEN /\ req' = [req EXCEPT ![r].acc = @ + 2,
                                   ![r].raised = CreateSubprocessException(req[r].exc)]
            /\ stageLock' = Unlock(stageLock, req[r].stage)
       ELSE /\ req' = [req EXCEPT ![r].acc = @ + 1, ![r].proxy = "live"]
            /\ UNCHANGED stageLock
    /\ UNCHANGED <<closeEv, stopEv, reqQ, putBuf, bufHeld, notifyQ, nextReqId, openReqs,
                   shmBuf, caller, wk, monDone, dispPc, cl, ctl, reqPool, ext>>

\* the scope of get_proxy is left, by its end or by an exception of the
\* body: finally proxy.release(), then Stage._release's finally
ProxyExit(r, how) ==
    /\ r \in Issued
    /\ req[r].acc = 1
    /\ req[r].proxy = "live"
    /\ req' = [req EXCEPT ![r].acc = @ + 1, ![r].proxy = "released", ![r].left = how,
                          ![r].res = [name |-> "none", result |-> "none"]]
    /\ stageLock' = Unlock(stageLock, req[r].stage)
    /\ UNCHANGED <<closeEv, stopEv, reqQ, putBuf, bufHeld, notifyQ, nextReqId, openReqs,
                   shmBuf, caller, wk, monDone, dispPc, cl, ctl, reqPool, ext>>

\* the holder of the proxy performs an operation on it
ProxyUse(r, name) ==
    /\ r \in Issued
    /\ req[r].proxy # "none"
    /\ req' = [req EXCEPT ![r].res = [name |-> name, result |-> ProxyOp(req[r].proxy, name)]]
    /\ UNCHANGED <<closeEv, stopEv, reqQ, putBuf, bufHeld, notifyQ, nextReqId, openReqs,
                   stageLock, shmBuf, caller, wk, monDone, dispPc, cl, ctl, reqPool, ext>>

\* ------------------------------------------------------------- workers
\* _Reader__read_process: while not self._stop.is_set() ends the loop
WorkerStop(w) ==
    /\ wk[w].pc = "loop"
    /\ stopEv
    /\ wk' = [wk EXCEPT ![w].pc = "done"]
    /\ UNCHANGED <<closeEv, stopEv, reqQ, putBuf, bufHeld, notifyQ, nextReqId, openReqs,
                   req, stageLock, shmBuf, caller, monDone, dispPc, cl, ctl, reqPool, ext>>

\* the shared buffer a worker attaches for a descriptor: bufs[req.map_id]
TargetBuffer(d) == d.map

\* a buffer whose size check lets every array through
Fits_always(d) == TRUE

\* SharedBuffer.asarray_direct: self.size() < nbytes raises SharedMemoryError
\* before the lock is taken and the array yielded (set_to goes through it)
Fits(d) == d.op # "large"

\* the exception the worker catches while it serves d
RaisedBy(d) ==
    CASE d.op = "large" -> "SharedMemoryError"
      [] d.op = "strict" -> "UnicodeDecodeError"
      [] OTHER -> "error"

\* what serving the descriptor d can come to: the op's result written into
\* the buffer, the result of some other op written there, an exception. A
\* key = None descriptor makes the worker unpack the key from the buffer,
\* under a lock of its own process: the buffer holds d's key or it does not
\* yet, and then the bytes unpack to another op or fail to unpack
ServeOutcomes(d) ==
    IF d.op = "ok" THEN {"result"}
    ELSE IF d.op \in {"bad", "strict"} THEN {"raise"}
    ELSE IF d.op = "large" THEN (IF Fits(d) THEN {"result"} ELSE {"raise"})
    ELSE IF shmBuf[TargetBuffer(d)].key = d.id THEN {"result"}
    ELSE {"foreign", "raise"}

\* req.key._apply(node, shm_ary): a result is written into the buffer, over
\* whatever key it held
ApplyOp(buf, d, who) == [buf EXCEPT ![TargetBuffer(d)] = [data |-> who, key |-> -1]]

\* _Reader__read_process: get_direct(timeout=0.1) yields a descriptor (a timeout
\* changes nothing) and the worker serves it: the result is written into the
\* stage, or the exception of the op is caught and becomes the notification
WorkerServe(w) ==
    /\ wk[w].pc = "loop"
    /\ ~stopEv
    /\ reqQ # <<>>
    /\ Head(reqQ) # QCMsg
    /\ reqQ' = Tail(reqQ)
    /\ \E outcome \in ServeOutcomes(Head(reqQ)) :
         IF outcome = "raise"
         THEN /\ wk' = [wk EXCEPT ![w].pc = "notify",
                                 ![w].out = ExcNoteOf(Head(reqQ).id, RaisedBy(Head(reqQ)))]
              /\ UNCHANGED shmBuf
         ELSE /\ shmBuf' = ApplyOp(shmBuf, Head(reqQ),
                                   IF outcome = "result" THEN Head(reqQ).id ELSE -2)
              /\ wk' = [wk EXCEPT ![w].pc = "notify", ![w].out = ResultNote(Head(reqQ).id)]
    /\ UNCHANGED <<closeEv, stopEv, putBuf, bufHeld, notifyQ, nextReqId, openReqs,
                   req, stageLock, caller, monDone, dispPc, cl, ctl, reqPool, ext>>

\* _Reader__read_process: get_direct yields QueueClosed
WorkerClosed(w) ==
    /\ wk[w].pc = "loop"
    /\ ~stopEv
    /\ reqQ # <<>>
    /\ Head(reqQ) = QCMsg
    /\ reqQ' = Tail(reqQ)
    /\ wk' = [wk EXCEPT ![w].pc = "reput"]
    /\ UNCHANGED <<closeEv, stopEv, putBuf, bufHeld, notifyQ, nextReqId, openReqs,
                   req, stageLock, shmBuf, caller, monDone, dispPc, cl, ctl, reqPool, ext>>

\* _Reader__read_process: self._notify.put(...) (blocks while the ring is full)
WorkerNotify(w) ==
    /\ wk[w].pc \in {"notify", "fatal"}
    /\ Room(notifyQ)
    /\ notifyQ' = Append(notifyQ, wk[w].out)
    /\ wk' = [wk EXCEPT ![w].pc = IF wk[w].pc = "fatal" THEN "done" ELSE "loop",
                        ![w].out = NoMsg]
    /\ UNCHANGED <<closeEv, stopEv, reqQ, putBuf, bufHeld, nextReqId, openReqs,
                   req, stageLock, shmBuf, caller, monDone, dispPc, cl, ctl, reqPool, ext>>

\* _Reader__read_process: self._queue.put(pack(QueueClosed)); break
WorkerReput(w) ==
    /\ wk[w].pc = "reput"
    /\ Room(reqQ)
    /\ reqQ' = Append(reqQ, QCMsg)
    /\ wk' = [wk EXCEPT ![w].pc = "done"]
    /\ UNCHANGED <<closeEv, stopEv, putBuf, bufHeld, notifyQ, nextReqId, openReqs,
                   req, stageLock, shmBuf, caller, monDone, dispPc, cl, ctl, reqPool, ext>>

\* a worker process is killed after it took a descriptor and before it put
\* the notification: nothing is sent for the request (one worker at most)
WorkerDie(w) ==
    /\ wk[w].pc = "notify"
    /\ \A v \in Procs : wk[v].pc # "dead"
    /\ wk' = [wk EXCEPT ![w] = [pc |-> "dead", out |-> NoMsg]]
    /\ UNCHANGED <<closeEv, stopEv, reqQ, putBuf, bufHeld, notifyQ, nextReqId, openReqs,
                   req, stageLock, shmBuf, caller, monDone, dispPc, cl, ctl, reqPool, ext>>

\* monitor(): every worker joined (an ended process or a killed one),
\* self._notify.put(pack((QueueClosed,)))
Monitor ==
    /\ ~monDone
    /\ \A w \in Procs : wk[w].pc \in {"done", "dead"}
    /\ Room(notifyQ)
    /\ notifyQ' = Append(notifyQ, QCMsg)
    /\ monDone' = TRUE
    /\ UNCHANGED <<closeEv, stopEv, reqQ, putBuf, bufHeld, nextReqId, openReqs,
                   req, stageLock, shmBuf, caller, wk, dispPc, cl, ctl, reqPool, ext>>

\* ------------------------------------------------------------- dispatch thread
\* an ordered Streamer whose callback adds to the pool all the same
Callback_always(pool, x) == Append(pool, x)

\* the notify callback of the Reader: None, the Streamer's request_pool.add
\* (unordered) or its no-op (ordered); -1 stands for QueueClosed
Callback(pool, x) == IF cfg.notify = "pool" THEN Append(pool, x) ELSE pool

\* notify_spool: every pending request is notified with the failure e
NotifyAll(e) ==
    [r \in ReqIds |-> IF r \in openReqs THEN Notify(req[r], FALSE, e) ELSE req[r]]

\* a dispatcher that fails every pending request for one request's error
NotifyOne_all(r, e) == NotifyAll(e)

\* notify_spool: open_reqs[e.__req_id__]._notify(None, None, e)
NotifyOne(r, e) == [req EXCEPT ![r] = Notify(@, FALSE, e)]

\* notify_spool: one notification is taken and handled under _open_reqs; a
\* req_id missing from the table raises KeyError and ends the thread
Dispatch ==
    /\ dispPc = "run"
    /\ notifyQ # <<>>
    /\ notifyQ' = Tail(notifyQ)
    /\ LET n == Head(notifyQ) IN
       CASE n.t = "res" ->
              IF n.id \in openReqs
              THEN /\ req' = [req EXCEPT ![n.id] = Notify(@, TRUE, "none")]
                   /\ reqPool' = Callback(reqPool, n.id)
                   /\ openReqs' = RemoveEntry(openReqs, n.id)
                   /\ UNCHANGED <<dispPc, cl>>
              ELSE /\ dispPc' = "dead"
                   /\ UNCHANGED <<req, reqPool, openReqs, cl>>
         [] n.t = "QC" ->
              /\ reqPool' = Callback(reqPool, -1)
              /\ req' = NotifyAll("closed")
              /\ openReqs' = {}
              /\ dispPc' = "done"
              /\ UNCHANGED cl
         [] n.t = "exc" /\ n.id = -1 ->
              /\ req' = NotifyAll("fatal")
              /\ openReqs' = {}
              /\ dispPc' = "closing"
              /\ cl' = [cl EXCEPT !["disp"] = "check"]
              /\ UNCHANGED reqPool
         [] OTHER ->
              IF n.id \in openReqs
              THEN /\ req' = NotifyOne(n.id, n.op)
                   /\ openReqs' = RemoveEntry(openReqs, n.id)
                   /\ UNCHANGED <<dispPc, cl, reqPool>>
              ELSE /\ dispPc' = "dead"
                   /\ UNCHANGED <<req, reqPool, openReqs, cl>>
    /\ UNCHANGED <<closeEv, stopEv, reqQ, putBuf, bufHeld, nextReqId,
                   stageLock, shmBuf, caller, wk, monDone, ctl, ext>>

\* ------------------------------------------------------------- close and stop
\* the thread k has returned from close(): stop() goes on to set the stop
\* event, notify_spool raises CreateSubprocessException and ends
Returned(k) ==
    /\ cl' = [cl EXCEPT ![k] = IF k = "ctl" /\ ctl.kind = "stop" THEN "stop" ELSE "idle"]
    /\ dispPc' = IF k = "disp" THEN "dead" ELSE dispPc
    /\ ctl' = IF k = "ctl" /\ ctl.kind = "close" THEN [ctl EXCEPT !.kind = "none"] ELSE ctl

\* the controlling thread calls Reader.close() or Reader.stop()
CtlCall(kind) ==
    /\ cl["ctl"] = "idle"
    /\ ctl.calls < MaxCalls
    /\ ctl' = [kind |-> kind, calls |-> ctl.calls + 1,
               stopCalled |-> ctl.stopCalled \/ kind = "stop"]
    /\ cl' = [cl EXCEPT !["ctl"] = "check"]
    /\ UNCHANGED <<closeEv, stopEv, reqQ, putBuf, bufHeld, notifyQ, nextReqId, openReqs,
                   req, stageLock, shmBuf, caller, wk, monDone, dispPc, reqPool, ext>>

\* close(): if not self._close.is_set()
CloseCheck(k) ==
    /\ cl[k] = "check"
    /\ IF closeEv THEN Returned(k)
       ELSE cl' = [cl EXCEPT ![k] = "set"] /\ UNCHANGED <<dispPc, ctl>>
    /\ UNCHANGED <<closeEv, stopEv, reqQ, putBuf, bufHeld, notifyQ, nextReqId, openReqs,
                   req, stageLock, shmBuf, caller, wk, monDone, reqPool, ext>>

\* close(): self._close.set()
CloseSet(k) ==
    /\ cl[k] = "set"
    /\ closeEv' = TRUE
    /\ cl' = [cl EXCEPT ![k] = "put"]
    /\ UNCHANGED <<stopEv, reqQ, putBuf, bufHeld, notifyQ, nextReqId, openReqs,
                   req, stageLock, shmBuf, caller, wk, monDone, dispPc, ctl, reqPool, ext>>

\* close(): self._queue.put(pack(QueueClosed)), one round of put's loop: the
\* head of _put_buffer goes first, QueueClosed once the buffer is clear
ClosePut(k) ==
    /\ cl[k] = "put"
    /\ Room(reqQ)
    /\ IF putBuf # <<>>
       THEN /\ reqQ' = Append(reqQ, Head(putBuf))
            /\ putBuf' = Tail(putBuf)
            /\ UNCHANGED <<cl, dispPc, ctl>>
       ELSE /\ reqQ' = Append(reqQ, QCMsg)
            /\ UNCHANGED putBuf
            /\ Returned(k)
    /\ UNCHANGED <<closeEv, stopEv, bufHeld, notifyQ, nextReqId, openReqs,
                   req, stageLock, shmBuf, caller, wk, monDone, reqPool, ext>>

\* stop(): self._stop.set()
StopSet ==
    /\ cl["ctl"] = "stop"
    /\ stopEv' = TRUE
    /\ cl' = [cl EXCEPT !["ctl"] = "idle"]
    /\ ctl' = [ctl EXCEPT !.kind = "none"]
    /\ UNCHANGED <<closeEv, reqQ, putBuf, bufHeld, notifyQ, nextReqId, openReqs,
                   req, stageLock, shmBuf, caller, wk, monDone, dispPc, reqPool, ext>>

\* ------------------------------------------------------------- the Reader
\* Reader.Core.__init__
ReaderInit ==
    /\ closeEv = FALSE
    /\ stopEv = FALSE
    /\ reqQ = <<>>
    /\ putBuf = <<>>
    /\ bufHeld = NoMsg
    /\ notifyQ = <<>>
    /\ nextReqId = 0
    /\ openReqs = {}
    /\ req = [r \in ReqIds |-> NoRequest]
    /\ stageLock = [s \in Stages |-> FALSE]
    /\ shmBuf = [s \in Stages |-> [data |-> -1, key |-> -1]]
    /\ caller = [c \in Callers |-> Idle("none")]
    /\ wk \in [Procs -> {[pc |-> "loop", out |-> NoMsg],
                        [pc |-> "fatal", out |-> ExcNote(-1)]}]
    /\ monDone = FALSE
    /\ dispPc = "run"
    /\ cl = [k \in Closers |-> "idle"]
    /\ ctl = [kind |-> "none", calls |-> 0, stopCalled |-> FALSE]
    /\ reqPool = <<>>

\* the parameters of a Reader used directly
ReaderCfg ==
    [notify |-> "none", qlen |-> QueueLen, ordered |-> FALSE, cyclic |-> FALSE,
     remainder |-> FALSE, len |-> 0, bs |-> 0, timeout |-> FALSE]

\* no Streamer
StreamIdle ==
    /\ strm = [pc |-> "none", i |-> 0, stop |-> FALSE]
    /\ issued = <<>>
    /\ stagePool = <<>>
    /\ cons = [pc |-> "none", r |-> -1]
    /\ got = <<>>
    /\ out = <<>>

\* SharedBuffer.__init__ of each Stage (master): the flag is 0, no worker
\* has attached yet
SegInit ==
    /\ shmFlag = [s \in Stages |-> 0]
    /\ shmMaster = [s \in Stages |-> "open"]
    /\ shmAtt = [s \in Stages |-> [w \in Procs |-> "none"]]

Consumers == 1..NConsumers

\* no thread shares the queue
NoConsumers == cthr = [c \in Consumers |-> [pc |-> "none", r |-> -1, loops |-> 0]]

\* no indexing expression is being built
NoExpr == dsop = [cls |-> "none"] /\ dsexpr = <<>>

\* no legacy streamer has been made
NoLegacy ==
    /\ bcount = <<0, 0>>
    /\ bproc = <<>>
    /\ cbq = [write |-> <<>>, read |-> <<>>]
    /\ cbthr = <<>>

Init ==
    /\ ReaderInit
    /\ cfg = ReaderCfg
    /\ RingInit
    /\ StreamIdle
    /\ SegInit
    /\ NoConsumers
    /\ NoExpr
    /\ NoLegacy

ReaderNext ==
    \/ \E w \in Procs : WorkerStop(w)
    \/ \E w \in Procs : WorkerServe(w)
    \/ \E w \in Procs : WorkerClosed(w)
    \/ \E w \in Procs : WorkerNotify(w)
    \/ \E w \in Procs : WorkerReput(w)
    \/ Monitor
    \/ Dispatch
    \/ BufferPop
    \/ BufferPut
    \/ \E k \in Closers : CloseCheck(k)
    \/ \E k \in Closers : CloseSet(k)
    \/ \E k \in Closers : ClosePut(k)

Next ==
    \/ ReaderNext
    \/ \E c \in Callers, s \in Stages, o \in Ops : RequestBegin(c, s, o)
    \/ \E c \in Callers : RequestIssue(c)
    \/ \E r \in ReqIds : AccessEnter(r)
    \/ \E r \in ReqIds : AccessExit(r)
    \/ \E kind \in {"close", "stop"} : CtlCall(kind)
    \/ StopSet

Spec == Init /\ [][Next]_vars

\* a SharedQueue with its producer threads and consumers
RingNext ==
    \/ \E p \in Producers, len \in Lens : RingPut(p, len)
    \/ \E p \in Producers : RingSidePut(p)
    \/ RingGet

SpecRing == Init /\ [][RingNext]_vars

\* ------------------------------------------- put and get_direct, block=False
\* the thread that calls get_direct(block=False), kept with the producers
\* under index 0: k counts its calls, err is the outcome of the last one and
\* from tells which queue raised it (the ring or the side channel)
Getter == 0

\* a ring that always has room
RingFull_never(size) == FALSE

\* _put_shared: while self._size.value >= self._queue_len
RingFull(size) == size >= RingLen

\* put(bytes, block=False) with nothing in _put_buffer: _put_shared returns
\* False on the full ring and _put_sync raises queue.Full, else the block is
\* placed (the side-channel bytes of a long value follow in RingSidePut)
NowaitPut(p, len) ==
    /\ sqProd[p].side = NoBytes
    /\ sqProd[p].k < MaxTries
    /\ LET b == Bytes(p, sqProd[p].k + 1, len) IN
       IF RingFull(sqSize)
       THEN /\ sqProd' = [sqProd EXCEPT ![p].k = @ + 1, ![p].err = "Full"]
            /\ UNCHANGED <<sqSlots, sqSize>>
       ELSE /\ sqSlots' = PlaceBlock(sqSlots, b, Oversize(b))
            /\ sqSize' = sqSize + 1
            /\ sqProd' = [sqProd EXCEPT ![p].k = @ + 1, ![p].err = "none",
                                        ![p].side = IF Oversize(b) THEN b ELSE NoBytes]
    /\ UNCHANGED <<sqTail, sqSide, sqOut>>
    /\ ReaderIdle

\* get_direct(block=False) and its scope: queue.Empty on the empty ring and,
\* from self._side_channel.get(block=False), on a flagged block whose bytes
\* are not in the side channel yet; else the value is yielded and the finally
\* advances the tail
NowaitGet ==
    /\ sqProd[Getter].k < MaxGets
    /\ IF sqSize <= 0 \/ (sqSlots[sqTail].flag /\ sqSide = <<>>)
       THEN /\ sqProd' = [sqProd EXCEPT ![Getter].k = @ + 1, ![Getter].err = "Empty",
                                        ![Getter].from = IF sqSize <= 0 THEN "ring" ELSE "side"]
            /\ UNCHANGED <<sqOut, sqSide, sqTail, sqSize>>
       ELSE /\ sqProd' = [sqProd EXCEPT ![Getter].k = @ + 1, ![Getter].err = "none",
                                        ![Getter].from = "none"]
            /\ sqOut' = Append(sqOut, TailValue)
            /\ sqSide' = IF sqSlots[sqTail].flag THEN Tail(sqSide) ELSE sqSide
            /\ sqTail' = (sqTail + 1) % RingLen
            /\ sqSize' = sqSize - 1
    /\ UNCHANGED sqSlots
    /\ ReaderIdle

\* SharedQueue.__init__, with the threads that put and get without blocking
NowaitInit ==
    /\ ReaderInit
    /\ \A w \in Procs : wk[w].pc = "loop"
    /\ cfg = ReaderCfg
    /\ StreamIdle
    /\ SegInit
    /\ NoConsumers
    /\ NoExpr
    /\ NoLegacy
    /\ sqSlots = [i \in 0..(RingLen - 1) |-> [flag |-> FALSE, data |-> NoBytes, by |-> NoBytes]]
    /\ sqTail = 0
    /\ sqSize = 0
    /\ sqSide = <<>>
    /\ sqOut = <<>>
    /\ sqProd = [p \in Producers \cup {Getter} |-> [k |-> 0, side |-> NoBytes, err |-> "none", from |-> "none"]]

\* a SharedQueue used with blocking and non-blocking puts and gets
NowaitNext ==
    \/ \E p \in Producers, len \in Lens : RingPut(p, len)
    \/ \E p \in Producers, len \in Lens : NowaitPut(p, len)
    \/ \E p \in Producers : RingSidePut(p)
    \/ RingGet
    \/ NowaitGet

SpecNowait == NowaitInit /\ [][NowaitNext]_vars

\* a Reader with its workers and notify_spool, requests whose keys travel in
\* the descriptor or in the stage, and the accesses to the results
KeyNext ==
    \/ \E c \in Callers, s \in Stages, o \in KeyOps : RequestBegin(c, s, o)
    \/ \E c \in Callers : RequestIssue(c)
    \/ \E c \in Callers : RequestWriteKey(c)
    \/ \E w \in Procs : WorkerServe(w)
    \/ \E w \in Procs : WorkerNotify(w)
    \/ Dispatch
    \/ \E r \in ReqIds : AccessEnter(r)
    \/ \E r \in ReqIds : AccessExit(r)

\* the same Reader, asked also for keys that cannot be serialised
PackNext ==
    \/ KeyNext
    \/ \E c \in Callers, s \in Stages : RequestBegin(c, s, "unpackable")

\* every worker has opened the file
KeyInit == Init /\ \A w \in Procs : wk[w].pc = "loop"

SpecKey == KeyInit /\ [][KeyNext]_vars

SpecPack == KeyInit /\ [][PackNext]_vars

\* a Reader with its workers and notify_spool, requests that succeed or fail
\* in the worker, and the accesses to the results
FailNext ==
    \/ \E c \in Callers, s \in Stages, o \in FailOps : RequestBegin(c, s, o)
    \/ \E c \in Callers : RequestIssue(c)
    \/ \E w \in Procs : WorkerServe(w)
    \/ \E w \in Procs : WorkerNotify(w)
    \/ Dispatch
    \/ \E r \in ReqIds : AccessEnter(r)
    \/ \E r \in ReqIds : AccessExit(r)

SpecFail == KeyInit /\ [][FailNext]_vars

\* a Reader with its workers and notify_spool, and requests whose results are
\* read through get_proxy
ProxyNext ==
    \/ \E c \in Callers, s \in Stages, o \in Ops : RequestBegin(c, s, o)
    \/ \E c \in Callers : RequestIssue(c)
    \/ \E w \in Procs : WorkerServe(w)
    \/ \E w \in Procs : WorkerNotify(w)
    \/ Dispatch
    \/ \E r \in ReqIds : ProxyEnter(r)
    \/ \E r \in ReqIds, how \in {"end", "exception"} : ProxyExit(r, how)
    \/ \E r \in ReqIds, name \in ProxyOps : ProxyUse(r, name)

SpecProxy == KeyInit /\ [][ProxyNext]_vars

\* ------------------------------------------------------------- put, put_async
\* SharedQueue.put and put_async step by step, with the threads of one
\* process, its _put_buffer and _buffer_thread, and the consumers
AsyncFrame ==
    UNCHANGED <<closeEv, stopEv, reqQ, notifyQ, nextReqId, openReqs, req, stageLock,
                shmBuf, caller, wk, monDone, dispPc, cl, ctl, reqPool, cfg, streamVars,
                segVars, thrVars, opVars, legacyVars>>

\* a producer thread outside put and put_async
ProducerIdle(k) == [k |-> k, pc |-> "idle", m |-> NoBytes, mode |-> "none", own |-> TRUE]

\* _buffer_thread, kept with the producers under index 0, waiting for
\* _put_buffer to fill
BufThread == 0
ThreadWait == [k |-> 0, pc |-> "wait", m |-> NoBytes, mode |-> "thread", own |-> TRUE]

\* a condition nobody ever holds
CvarFree_always == TRUE

\* with self._put_buffer_cvar: no thread is inside put's block (the buffer
\* thread holds the condition only for its popleft)
CvarFree == \A q \in Producers : sqProd[q].pc \notin {"sync", "side", "pop"}

\* put(bytes, block=True) or put_async(bytes) is called
PutBegin(p, len, mode) ==
    /\ sqProd[p].pc = "idle"
    /\ sqProd[p].k < MaxAsync
    /\ sqProd' = [sqProd EXCEPT ![p] = [k |-> @.k + 1, pc |-> "cvar",
                                        m |-> Bytes(p, @.k + 1, len), mode |-> mode,
                                        own |-> TRUE]]
    /\ UNCHANGED <<sqSlots, sqTail, sqSize, sqSide, sqOut, putBuf, bufHeld>>
    /\ AsyncFrame

\* put: with self._put_buffer_cvar
PutAcquire(p) ==
    /\ sqProd[p].pc = "cvar"
    /\ CvarFree
    /\ sqProd' = [sqProd EXCEPT ![p].pc = "sync"]
    /\ UNCHANGED <<sqSlots, sqTail, sqSize, sqSide, sqOut, putBuf, bufHeld>>
    /\ AsyncFrame

\* put: _put_sync of the head of _put_buffer, or of the value itself when the
\* buffer is clear; _put_shared places the block, waits for room when
\* block=True and reports Full when block=False (put_async then appends)
PutSync(p) ==
    /\ sqProd[p].pc = "sync"
    /\ sqSize < RingLen \/ sqProd[p].mode = "async"
    /\ LET own == putBuf = <<>>
           b == IF own THEN sqProd[p].m ELSE Head(putBuf) IN
       IF sqSize < RingLen
       THEN /\ sqSlots' = PlaceBlock(sqSlots, b, Oversize(b))
            /\ sqSize' = sqSize + 1
            /\ sqProd' = [sqProd EXCEPT ![p].own = own,
                              ![p].pc = IF Oversize(b) THEN "side"
                                        ELSE IF own THEN "idle" ELSE "pop"]
       ELSE /\ sqProd' = [sqProd EXCEPT ![p].pc = "append"]
            /\ UNCHANGED <<sqSlots, sqSize>>
    /\ UNCHANGED <<sqTail, sqSide, sqOut, putBuf, bufHeld>>
    /\ AsyncFrame

\* _put_sync: self._side_channel.put(bytes), still inside put's block
PutSide(p) ==
    /\ sqProd[p].pc = "side"
    /\ sqSide' = Append(sqSide, IF sqProd[p].own THEN sqProd[p].m ELSE Head(putBuf))
    /\ sqProd' = [sqProd EXCEPT ![p].pc = IF sqProd[p].own THEN "idle" ELSE "pop"]
    /\ UNCHANGED <<sqSlots, sqTail, sqSize, sqOut, putBuf, bufHeld>>
    /\ AsyncFrame

\* put: self._put_buffer.popleft() after the buffered value went in, then
\* round the loop again
PutPopleft(p) ==
    /\ sqProd[p].pc = "pop"
    /\ putBuf' = Tail(putBuf)
    /\ sqProd' = [sqProd EXCEPT ![p].pc = "cvar"]
    /\ UNCHANGED <<sqSlots, sqTail, sqSize, sqSide, sqOut, bufHeld>>
    /\ AsyncFrame

\* put_async: on Full the value is appended to _put_buffer under the
\* condition (the buffer thread is started when it is not alive)
PutAppend(p) ==
    /\ sqProd[p].pc = "append"
    /\ CvarFree
    /\ putBuf' = Append(putBuf, sqProd[p].m)
    /\ sqProd' = [sqProd EXCEPT ![p] = ProducerIdle(@.k)]
    /\ UNCHANGED <<sqSlots, sqTail, sqSize, sqSide, sqOut, bufHeld>>
    /\ AsyncFrame

\* _buffer_thread: under the condition wait for a value and popleft it
ThreadPop ==
    /\ sqProd[BufThread].pc = "wait"
    /\ CvarFree
    /\ putBuf # <<>>
    /\ sqProd' = [sqProd EXCEPT ![BufThread].pc = "put", ![BufThread].m = Head(putBuf)]
    /\ putBuf' = Tail(putBuf)
    /\ UNCHANGED <<sqSlots, sqTail, sqSize, sqSide, sqOut, bufHeld>>
    /\ AsyncFrame

\* _buffer_thread: _put_sync(bytes, block=True), the block
ThreadPut ==
    /\ sqProd[BufThread].pc = "put"
    /\ sqSize < RingLen
    /\ sqSlots' = PlaceBlock(sqSlots, sqProd[BufThread].m, Oversize(sqProd[BufThread].m))
    /\ sqSize' = sqSize + 1
    /\ sqProd' = [sqProd EXCEPT ![BufThread] =
                     IF Oversize(@.m) THEN [@ EXCEPT !.pc = "side"] ELSE ThreadWait]
    /\ UNCHANGED <<sqTail, sqSide, sqOut, putBuf, bufHeld>>
    /\ AsyncFrame

\* _buffer_thread: _put_sync(bytes, block=True), the side channel
ThreadSide ==
    /\ sqProd[BufThread].pc = "side"
    /\ sqSide' = Append(sqSide, sqProd[BufThread].m)
    /\ sqProd' = [sqProd EXCEPT ![BufThread] = ThreadWait]
    /\ UNCHANGED <<sqSlots, sqTail, sqSize, sqOut, putBuf, bufHeld>>
    /\ AsyncFrame

\* a SharedQueue, the producer threads of one process about to put
AsyncInit ==
    /\ ReaderInit
    /\ \A w \in Procs : wk[w].pc = "loop"
    /\ cfg = ReaderCfg
    /\ StreamIdle
    /\ SegInit
    /\ NoConsumers
    /\ NoExpr
    /\ NoLegacy
    /\ sqSlots = [i \in 0..(RingLen - 1) |-> [flag |-> FALSE, data |-> NoBytes, by |-> NoBytes]]
    /\ sqTail = 0
    /\ sqSize = 0
    /\ sqSide = <<>>
    /\ sqOut = <<>>
    /\ sqProd = [p \in Producers \cup {BufThread} |->
                    IF p = BufThread THEN ThreadWait ELSE ProducerIdle(0)]

AsyncNext ==
    \/ \E p \in Producers, len \in Lens, mode \in {"put", "async"} : PutBegin(p, len, mode)
    \/ \E p \in Producers : PutAcquire(p)
    \/ \E p \in Producers : PutSync(p)
    \/ \E p \in Producers : PutSide(p)
    \/ \E p \in Producers : PutPopleft(p)
    \/ \E p \in Producers : PutAppend(p)
    \/ ThreadPop
    \/ ThreadPut
    \/ ThreadSide
    \/ RingGet

SpecAsync == AsyncInit /\ [][AsyncNext]_vars

\* ------------------------------------------------------------- the key in the stage
\* Reader.Core.__init__: SharedQueue(1024, 50), the element size
QueueElemSize == 1024
\* request(): the bytes allowed for the RequestDetails around the key
Overhead == 50
\* request(): the bytes of struct.pack('@I', len(keydata))
LenBytes == 4

\* lengths of the packed keys requested, sizes of the stages
KeyLens == {4, 974, 975, 976, 5000}
StageSizes == {3, 978, 979, 980, 4096}

\* request(): elem_size() < len(keydata) + 50 and len(keydata) <= shm_buf.size() - 4
InStage(len, size) == QueueElemSize < len + Overhead /\ len <= size - LenBytes

\* a segment of bytes written into the payload of a stage: [lo, hi), what
\* was written, for which request, and for a length its value
Write(lo, hi, what, id, val) == [lo |-> lo, hi |-> hi, what |-> what, id |-> id, val |-> val]

\* byte j of struct.pack('@I', n), lowest first
PackByte(n, j) == (n \div (256 ^ j)) % 256

\* the payload byte i after the writes of log: that of the last write over
\* it, or what the segment held before
RECURSIVE ByteAt(_, _)
ByteAt(log, i) ==
    IF log = <<>> THEN [what |-> "old", id |-> -1, off |-> 0, byte |-> 0]
    ELSE LET w == log[Len(log)] IN
         IF w.lo <= i /\ i < w.hi
         THEN [what |-> w.what, id |-> w.id, off |-> i - w.lo,
               byte |-> IF w.what = "len" THEN PackByte(w.val, i - w.lo) ELSE 0]
         ELSE ByteAt(SubSeq(log, 1, Len(log) - 1), i)

\* struct.unpack('@I', buf[-4:]): the number in the last four bytes, whatever
\* wrote them (bytes that are not a length read as some other number: -1)
UnpackLen(log, size) ==
    IF \A j \in 0..(LenBytes - 1) : ByteAt(log, size - LenBytes + j).what = "len"
    THEN ByteAt(log, size - LenBytes).byte
         + 256 * ByteAt(log, size - LenBytes + 1).byte
         + 65536 * ByteAt(log, size - LenBytes + 2).byte
         + 16777216 * ByteAt(log, size - LenBytes + 3).byte
    ELSE -1

\* buf[:keysize] is byte for byte the packed key of request id, len bytes long
IsKeyOf(log, keysize, id, len) ==
    /\ keysize = len
    /\ \A i \in 0..(len - 1) :
          LET b == ByteAt(log, i) IN b.what = "key" /\ b.id = id /\ b.off = i

\* RequestDetails(req_id, key, shm_buf): key the packed bytes or None (klen is
\* the length of the key requested, on the record only)
KeyDetails(id, s, inline, klen) ==
    [t |-> "req", id |-> id, map |-> s, op |-> [inline |-> inline, klen |-> klen]]

SizeFrame ==
    UNCHANGED <<closeEv, stopEv, bufHeld, notifyQ, monDone, dispPc, cl, ctl, reqPool, ext>>

\* request(key, stage) up to the descriptor: the close check, stage._acquire(),
\* the rule for the place of the key, the Request recorded, _put_queue(details)
KeyRequest(c, s, len) ==
    /\ caller[c].pc = "idle"
    /\ nextReqId < MaxReq
    /\ ~IsClosed
    /\ IF stageLock[s]
       THEN /\ caller' = [caller EXCEPT ![c].err = "RuntimeError"]
            /\ UNCHANGED <<stageLock, req, openReqs, nextReqId, reqQ, putBuf>>
       ELSE LET id == nextReqId
                staged == InStage(len, cfg.size)
                p == PutAsync(reqQ, putBuf, KeyDetails(id, s, ~staged, len))
            IN /\ stageLock' = TryLock(stageLock, s)
               /\ req' = [req EXCEPT ![id] = NewRequest(s)]
               /\ openReqs' = openReqs \cup {id}
               /\ nextReqId' = nextReqId + 1
               /\ reqQ' = p.q
               /\ putBuf' = p.buf
               /\ caller' = [caller EXCEPT ![c] =
                               IF staged
                               THEN [pc |-> "writelen", stage |-> s, op |-> len,
                                     err |-> "none", id |-> id]
                               ELSE [@ EXCEPT !.err = "none"]]
    /\ UNCHANGED <<shmBuf, wk>>
    /\ SizeFrame

\* request(): buf[-4:] = struct.pack('@I', len(keydata))
KeyWriteLen(c) ==
    /\ caller[c].pc = "writelen"
    /\ shmBuf' = [shmBuf EXCEPT ![caller[c].stage] =
                    Append(@, Write(cfg.size - LenBytes, cfg.size, "len",
                                    caller[c].id, caller[c].op))]
    /\ caller' = [caller EXCEPT ![c].pc = "writekey"]
    /\ UNCHANGED <<reqQ, putBuf, nextReqId, openReqs, req, stageLock, wk>>
    /\ SizeFrame

\* request(): buf[:len(keydata)] = keydata; return req
KeyWriteBytes(c) ==
    /\ caller[c].pc = "writekey"
    /\ shmBuf' = [shmBuf EXCEPT ![caller[c].stage] =
                    Append(@, Write(0, caller[c].op, "key", caller[c].id, 0))]
    /\ caller' = [caller EXCEPT ![c] = [pc |-> "idle", stage |-> 0, op |-> 0,
                                        err |-> "none", id |-> -1]]
    /\ UNCHANGED <<reqQ, putBuf, nextReqId, openReqs, req, stageLock, wk>>
    /\ SizeFrame

\* _Reader__read_process: the descriptor is dequeued and its key recovered,
\* from the descriptor, or from the stage when req.key is None: keysize from
\* buf[-4:], the key from buf[:keysize]
KeyServe(w) ==
    /\ wk[w].pc = "loop"
    /\ reqQ # <<>>
    /\ reqQ' = Tail(reqQ)
    /\ LET d == Head(reqQ)
           log == shmBuf[d.map]
       IN wk' = [wk EXCEPT ![w].out =
                    [id |-> d.id, inline |-> d.op.inline,
                     exact |-> d.op.inline
                               \/ IsKeyOf(log, UnpackLen(log, cfg.size), d.id, d.op.klen)]]
    /\ UNCHANGED <<putBuf, nextReqId, openReqs, req, stageLock, shmBuf, caller>>
    /\ SizeFrame

\* a Reader whose stages all have one size, nothing written into them yet
SizeInit ==
    /\ closeEv = FALSE
    /\ stopEv = FALSE
    /\ reqQ = <<>>
    /\ putBuf = <<>>
    /\ bufHeld = NoMsg
    /\ notifyQ = <<>>
    /\ nextReqId = 0
    /\ openReqs = {}
    /\ req = [r \in ReqIds |-> NoRequest]
    /\ stageLock = [s \in Stages |-> FALSE]
    /\ shmBuf = [s \in Stages |-> <<>>]
    /\ caller = [c \in Callers |-> [pc |-> "idle", stage |-> 0, op |-> 0,
                                    err |-> "none", id |-> -1]]
    /\ wk = [w \in Procs |-> [pc |-> "loop", out |-> [id |-> -1, inline |-> TRUE, exact |-> TRUE]]]
    /\ monDone = FALSE
    /\ dispPc = "run"
    /\ cl = [k \in Closers |-> "idle"]
    /\ ctl = [kind |-> "none", calls |-> 0, stopCalled |-> FALSE]
    /\ reqPool = <<>>
    /\ cfg \in {[qlen |-> QueueLen, size |-> size] : size \in StageSizes}
    /\ RingInit
    /\ StreamIdle
    /\ SegInit
    /\ NoConsumers
    /\ NoExpr
    /\ NoLegacy

SizeNext ==
    \/ \E c \in Callers, s \in Stages, len \in KeyLens : KeyRequest(c, s, len)
    \/ \E c \in Callers : KeyWriteLen(c)
    \/ \E c \in Callers : KeyWriteBytes(c)
    \/ \E w \in Procs : KeyServe(w)
    \/ BufferPop
    \/ BufferPut

SpecSize == SizeInit /\ [][SizeNext]_vars

\* ------------------------------------------------------------- dataset_ops
\* Python's None in a numeric field, and in a column name
None == -1
NoCol == "None"

\* an indexing key: an int, a slice, the Ellipsis, a str, a list of
\* coordinates, a tuple of keys, or the type slice itself
Key(kind, start, stop, step, name, items) ==
    [kind |-> kind, start |-> start, stop |-> stop, step |-> step, name |-> name,
     items |-> items]
IntKey(i) == Key("int", i, None, None, NoCol, <<>>)
Slice(a, b, c) == Key("slice", a, b, c, NoCol, <<>>)
EllipsisKey == Key("ellipsis", None, None, None, NoCol, <<>>)
SliceType == Key("type", None, None, None, NoCol, <<>>)
StrKey(n) == Key("str", None, None, None, n, <<>>)
ListKey == Key("list", None, None, None, NoCol, <<>>)
TupleKey(items) == Key("tuple", None, None, None, NoCol, items)

\* np.s_[:]
FullSlice == Slice(None, None, None)

\* the keys the expressions are built from
Members == {FullSlice, EllipsisKey, IntKey(0), SliceType}
Keys ==
    {IntKey(3), Slice(30, 35, None), Slice(None, 2, None), EllipsisKey,
     StrKey("A"), StrKey("B"), ListKey}
    \cup {TupleKey(<<Slice(30, 35, None)>>), TupleKey(<<IntKey(0), FullSlice>>)}
    \cup {TupleKey(<<Slice(30, 35, None), m>>) : m \in Members}
    \cup {TupleKey(<<Slice(30, 35, None), m, n>>) : m, n \in {FullSlice, EllipsisKey}}

\* (k is slice and k == np.s_[:]) or k is Ellipsis
TrailingOk(k) ==
    (k = SliceType /\ k = FullSlice) \/ k.kind = "ellipsis"

\* _is_simple_slice
IsSimpleSlice(key) ==
    /\ key.kind = "tuple"
    /\ Len(key.items) > 0
    /\ key.items[1].kind = "slice"
    /\ \A i \in 2..Len(key.items) : TrailingOk(key.items[i])

\* _is_coords
IsCoords(key) == key.kind = "list"

\* the op objects: class, column, slice bounds, coordinates, _index
Op(cls, col, start, stop, step, coords, index) ==
    [cls |-> cls, col |-> col, start |-> start, stop |-> stop, step |-> step,
     coords |-> coords, index |-> index]
ColOp(col) == Op("ColOp", col, None, None, None, FALSE, <<>>)
ReadOpTable(col, start, stop, step) == Op("ReadOpTable", col, start, stop, step, FALSE, <<>>)
ReadScalarOpTable(col, idx) == Op("ReadScalarOpTable", col, idx, idx + 1, None, FALSE, <<>>)
CoordOp(col) == Op("CoordOp", col, None, None, None, TRUE, <<>>)
IndexOp(key) == Op("IndexOp", NoCol, None, None, None, FALSE, <<key>>)
IndexError == Op("IndexError", NoCol, None, None, None, FALSE, <<>>)
TableDataset == Op("TableDataset", NoCol, None, None, None, FALSE, <<>>)

OpClasses == {"ColOp", "ReadOpTable", "ReadScalarOpTable", "CoordOp", "IndexOp"}

\* OpBase.__getitem__: the key is stored in _index
OpBaseGetItem(op, key) == [op EXCEPT !.index = Append(@, key)]

\* ColOp.__getitem__
ColOpGetItem(op, key) ==
    IF key.kind = "int" THEN ReadScalarOpTable(op.col, key.start)
    ELSE IF key.kind = "slice" THEN ReadOpTable(op.col, key.start, key.stop, key.step)
    ELSE IF IsSimpleSlice(key)
         THEN ReadOpTable(op.col, key.items[1].start, key.items[1].stop, key.items[1].step)
    ELSE IF IsCoords(key) THEN CoordOp(op.col)
    ELSE OpBaseGetItem(op, key)

\* ReadOpTable.__getitem__
ReadOpTableGetItem(op, key) ==
    IF key.kind = "str" /\ op.col = NoCol
    THEN ReadOpTable(key.name, op.start, op.stop, op.step)
    ELSE OpBaseGetItem(op, key)

\* ReadScalarOpTable.__getitem__
ReadScalarOpTableGetItem(op, key) ==
    IF key.kind = "str" /\ op.col = NoCol
    THEN ReadScalarOpTable(key.name, op.start)
    ELSE OpBaseGetItem(op, key)

\* CoordOp.__getitem__
CoordOpGetItem(op, key) ==
    IF key.kind = "str" /\ op.col = NoCol
    THEN CoordOp(key.name)
    ELSE OpBaseGetItem(op, key)

\* TableDataset.__getitem__
TableDatasetGetItem(key) ==
    IF key.kind = "ellipsis" THEN IndexError
    ELSE IF key.kind = "str" THEN ColOp(key.name)
    ELSE IF key.kind = "int" THEN ReadScalarOpTable(NoCol, key.start)
    ELSE IF key.kind = "slice" THEN ReadOpTable(NoCol, key.start, key.stop, key.step)
    ELSE IF IsSimpleSlice(key)
         THEN ReadOpTable(NoCol, key.items[1].start, key.items[1].stop, key.items[1].step)
    ELSE IF IsCoords(key) THEN CoordOp(NoCol)
    ELSE IndexOp(key)

\* op[key], by the class of op
GetItem(op, key) ==
    CASE op.cls = "TableDataset" -> TableDatasetGetItem(key)
      [] op.cls = "ColOp" -> ColOpGetItem(op, key)
      [] op.cls = "ReadOpTable" -> ReadOpTableGetItem(op, key)
      [] op.cls = "ReadScalarOpTable" -> ReadScalarOpTableGetItem(op, key)
      [] op.cls = "CoordOp" -> CoordOpGetItem(op, key)
      [] OTHER -> OpBaseGetItem(op, key)

\* everything but the expression
ExprFrame ==
    UNCHANGED <<closeEv, stopEv, reqQ, putBuf, bufHeld, notifyQ, nextReqId, openReqs,
                req, stageLock, shmBuf, caller, wk, monDone, dispPc, cl, ctl, reqPool,
                cfg, ringVars, streamVars, segVars, thrVars, legacyVars>>

\* the call D.col(name) of an expression
Col(name) ==
    /\ dsop.cls = "TableDataset"
    /\ dsop' = ColOp(name)
    /\ dsexpr' = Append(dsexpr, Key("col", None, None, None, name, <<>>))
    /\ ExprFrame

\* one indexing step  [key]  of an expression
Index(key) ==
    /\ dsop.cls \in OpClasses \cup {"TableDataset"}
    /\ Len(dsexpr) < MaxKeys
    /\ dsop' = GetItem(dsop, key)
    /\ dsexpr' = Append(dsexpr, key)
    /\ ExprFrame

\* a table dataset D about to be indexed
ExprInit ==
    /\ ReaderInit
    /\ cfg = ReaderCfg
    /\ RingInit
    /\ StreamIdle
    /\ SegInit
    /\ NoConsumers
    /\ dsop = TableDataset
    /\ dsexpr = <<>>
    /\ NoLegacy

ExprNext ==
    \/ \E name \in {"A", "B"} : Col(name)
    \/ \E key \in Keys : Index(key)

SpecExpr == ExprInit /\ [][ExprNext]_vars

\* ------------------------------------------------------------- SharedBuffer
\* everything but the segments stays as it is
SegFrame ==
    UNCHANGED <<closeEv, stopEv, reqQ, putBuf, bufHeld, notifyQ, nextReqId, openReqs,
                req, stageLock, shmBuf, caller, wk, monDone, dispPc, cl, ctl, reqPool,
                cfg, ringVars, streamVars, thrVars, opVars, legacyVars>>

\* SharedBuffer._is_unlinked on an attached handle: self._flag[:] == b'\x01'
IsUnlinked(s) == shmFlag[s] = 1

\* SharedBuffer.__init__: self._flag[:] = b'\x00', run by the master and by
\* every attacher
InitFlag(flags, s) == [flags EXCEPT ![s] = 0]

\* a worker serves a request for a segment it has not cached:
\* SharedBuffer(map_id, size_nbytes) opens the name and maps it (_shm_open,
\* mmap); once the name is unlinked _shm_open raises and the request fails
SegOpen(w, s) ==
    /\ shmAtt[s][w] = "none"
    /\ shmAtt' = [shmAtt EXCEPT ![s][w] =
                     IF shmMaster[s] = "closed" THEN "refused" ELSE "opening"]
    /\ UNCHANGED <<shmFlag, shmMaster>>
    /\ SegFrame

\* SharedBuffer.__init__ of the attacher goes on: the flag byte is written,
\* the handle is stored in bufs[map_id]
SegAttach(w, s) ==
    /\ shmAtt[s][w] = "opening"
    /\ shmFlag' = InitFlag(shmFlag, s)
    /\ shmAtt' = [shmAtt EXCEPT ![s][w] = "attached"]
    /\ UNCHANGED shmMaster
    /\ SegFrame

\* Stage.close() -> SharedBuffer.close() -> cleanup() of the master: the
\* flag byte is set to 1
MasterFlag(s) ==
    /\ shmMaster[s] = "open"
    /\ shmFlag' = [shmFlag EXCEPT ![s] = 1]
    /\ shmMaster' = [shmMaster EXCEPT ![s] = "flagged"]
    /\ UNCHANGED shmAtt
    /\ SegFrame

\* cleanup() of the master goes on: release(), close(), unlink(); close()
\* returns
MasterUnlink(s) ==
    /\ shmMaster[s] = "flagged"
    /\ shmMaster' = [shmMaster EXCEPT ![s] = "closed"]
    /\ UNCHANGED <<shmFlag, shmAtt>>
    /\ SegFrame

\* _Reader__read_process on queue.Empty: a cached buffer whose
\* _is_unlinked() is true is closed and deleted from bufs (one whose flag is
\* 0 is kept)
SegTimeout(w, s) ==
    /\ shmAtt[s][w] = "attached"
    /\ IsUnlinked(s)
    /\ shmAtt' = [shmAtt EXCEPT ![s][w] = "dropped"]
    /\ UNCHANGED <<shmFlag, shmMaster>>
    /\ SegFrame

\* the segments of the stages, their masters and the workers that attach them
SegNext ==
    \/ \E w \in Procs, s \in Stages : SegOpen(w, s)
    \/ \E w \in Procs, s \in Stages : SegAttach(w, s)
    \/ \E s \in Stages : MasterFlag(s)
    \/ \E s \in Stages : MasterUnlink(s)
    \/ \E w \in Procs, s \in Stages : SegTimeout(w, s)

SpecSeg == Init /\ [][SegNext]_vars

\* ------------------------------------------------------------- StagePool
\* the state a request made with a StagePool leaves alone
PoolFrame ==
    UNCHANGED <<closeEv, stopEv, bufHeld, notifyQ, shmBuf, wk, monDone, dispPc, cl, ctl,
                reqPool, cfg, ringVars, strm, issued, cons, got, out, segVars, thrVars, opVars, legacyVars>>

\* Reader.request(op, stage_pool): the check of the close event (stage 0
\* stands for the pool)
PoolBegin(c) ==
    /\ caller[c].pc = "idle"
    /\ nextReqId + InFlightCalls < MaxPoolReq
    /\ caller' = [caller EXCEPT ![c] =
                    IF IsClosed
                    THEN [@ EXCEPT !.err = "RuntimeError"]
                    ELSE [pc |-> "acquire", stage |-> 0, op |-> "ok", err |-> "none", id |-> -1]]
    /\ UNCHANGED <<stageLock, req, openReqs, nextReqId, reqQ, putBuf, stagePool>>
    /\ PoolFrame

\* StagePool._acquire on the empty pool with a timeout: queue.Empty is raised
\* once the timeout has elapsed (without a timeout the thread waits)
PoolEmpty(c) ==
    /\ caller[c].pc = "acquire"
    /\ caller[c].stage = 0
    /\ stagePool = <<>>
    /\ cfg.timeout
    /\ caller' = [caller EXCEPT ![c] = Idle("Empty")]
    /\ UNCHANGED <<stageLock, req, openReqs, nextReqId, reqQ, putBuf, stagePool>>
    /\ PoolFrame

\* StagePool._acquire: self._stage_pool.popleft()._acquire(), and the rest of
\* Reader.request: Stage._acquire raises RuntimeError when the lock is taken
\* (the stage has left the pool), else the request is recorded and enqueued
PoolIssue(c) ==
    /\ caller[c].pc = "acquire"
    /\ caller[c].stage = 0
    /\ stagePool # <<>>
    /\ stagePool' = Tail(stagePool)
    /\ LET id == nextReqId
           s == Head(stagePool)
           p == PutAsync(reqQ, putBuf, RequestDetails(id, s, "ok"))
       IN IF stageLock[s]
          THEN /\ caller' = [caller EXCEPT ![c] = Idle("RuntimeError")]
               /\ UNCHANGED <<stageLock, req, openReqs, nextReqId, reqQ, putBuf>>
          ELSE /\ stageLock' = TryLock(stageLock, s)
               /\ req' = [r \in ReqIds |->
                            IF r = id
                            THEN [NewRequest(s) EXCEPT
                                    !.overlap = LiveOn(s) # {}, !.early = ~closeCalled]
                            ELSE IF r \in LiveOn(s) THEN [req[r] EXCEPT !.overlap = TRUE]
                            ELSE req[r]]
               /\ openReqs' = openReqs \cup {id}
               /\ nextReqId' = nextReqId + 1
               /\ reqQ' = p.q
               /\ putBuf' = p.buf
               /\ caller' = [caller EXCEPT ![c] = Idle("none")]
    /\ PoolFrame

\* StagePool._return: self._stage_pool.append(stage); self._cvar.notify()
Return(pool, s) == Append(pool, s)

\* Request.get_unsafe on a request made with a pool: the scope of
\* StagePoolWrapper._release is entered; a failed request raises inside the
\* scope, which releases the stage and returns it to the pool at once
PoolEnter(r) ==
    /\ r \in Issued
    /\ req[r].ready
    /\ req[r].acc % 2 = 0
    /\ req[r].acc < 2 * MaxAccess
    /\ IF req[r].exc # "none"
       THEN /\ req' = [req EXCEPT ![r].acc = @ + 2,
                                   ![r].raised = CreateSubprocessException(req[r].exc)]
            /\ stageLock' = Unlock(stageLock, req[r].stage)
            /\ stagePool' = Return(stagePool, req[r].stage)
       ELSE /\ req' = [req EXCEPT ![r].acc = @ + 1]
            /\ UNCHANGED <<stageLock, stagePool>>
    /\ UNCHANGED <<openReqs, nextReqId, reqQ, putBuf, caller>>
    /\ PoolFrame

\* the scope is left: Stage._release's finally releases the lock, then
\* StagePoolWrapper._release's finally returns the stage to the pool
PoolExit(r) ==
    /\ r \in Issued
    /\ req[r].acc % 2 = 1
    /\ req' = [req EXCEPT ![r].acc = @ + 1]
    /\ stageLock' = Unlock(stageLock, req[r].stage)
    /\ stagePool' = Return(stagePool, req[r].stage)
    /\ UNCHANGED <<openReqs, nextReqId, reqQ, putBuf, caller>>
    /\ PoolFrame

\* StagePool.__init__ with N_stages = 1 or all the stages, with or without
\* a timeout; every worker has opened the file
PoolInit ==
    /\ ReaderInit
    /\ \A w \in Procs : wk[w].pc = "loop"
    /\ cfg \in {[ReaderCfg EXCEPT !.timeout = b] : b \in BOOLEAN}
    /\ RingInit
    /\ strm = [pc |-> "none", i |-> 0, stop |-> FALSE]
    /\ issued = <<>>
    /\ stagePool \in {[j \in 1..n |-> j] : n \in 1..NStages}
    /\ cons = [pc |-> "none", r |-> -1]
    /\ got = <<>>
    /\ out = <<>>
    /\ SegInit
    /\ NoConsumers
    /\ NoExpr
    /\ NoLegacy

\* a Reader whose requests take their stage from a StagePool
PoolNext ==
    \/ \E c \in Callers : PoolBegin(c)
    \/ \E c \in Callers : PoolEmpty(c)
    \/ \E c \in Callers : PoolIssue(c)
    \/ \E w \in Procs : WorkerServe(w)
    \/ \E w \in Procs : WorkerNotify(w)
    \/ Dispatch
    \/ BufferPop
    \/ BufferPut
    \/ \E r \in ReqIds : PoolEnter(r)
    \/ \E r \in ReqIds : PoolExit(r)

SpecPool == PoolInit /\ [][PoolNext]_vars

\* ------------------------------------------------------------- Streamer
\* an op of request_spool: rows [a, b) of the dataset followed by rows [c, d)
\* (dataset[a:b] has c = d = 0, JoinedSlicesOp has both slices)
Block(a, b, c, d) == [a |-> a, b |-> b, c |-> c, d |-> d]

\* request_spool leaves its loop (break)
NoBlock == Block(0, 0, 0, 0)

\* a request_spool that never issues the remainder
NextBlock_full(i) ==
    IF i + cfg.bs > cfg.len
    THEN IF cfg.cyclic THEN Block(i, cfg.len, 0, cfg.bs - (cfg.len - i)) ELSE NoBlock
    ELSE Block(i, i + cfg.bs, 0, 0)

\* a request_spool that cuts the last block short instead of joining
NextBlock_clip(i) ==
    IF i + cfg.bs > cfg.len THEN Block(i, cfg.len, 0, 0) ELSE Block(i, i + cfg.bs, 0, 0)

\* request_spool: the op for the cursor i
NextBlock(i) ==
    IF i + cfg.bs > cfg.len
    THEN IF cfg.cyclic THEN Block(i, cfg.len, 0, cfg.bs - (cfg.len - i))
         ELSE IF cfg.remainder /\ i < cfg.len THEN Block(i, cfg.len, 0, 0)
         ELSE NoBlock
    ELSE Block(i, i + cfg.bs, 0, 0)

\* a request_spool whose cursor does not wrap
NextCursor_plain(i) == i + cfg.bs

\* request_spool: i = stop_idx
NextCursor(i) ==
    IF i + cfg.bs > cfg.len
    THEN IF cfg.cyclic THEN cfg.bs - (cfg.len - i) ELSE cfg.len
    ELSE i + cfg.bs

\* the rows an op reads from the node (each row stands for its index):
\* node.read(start, stop) and, for JoinedSlicesOp, the second read after it
Rows(blk) ==
    [j \in 1..((blk.b - blk.a) + (blk.d - blk.c)) |->
        IF j <= blk.b - blk.a THEN blk.a + (j - 1) ELSE blk.c + (j - (blk.b - blk.a) - 1)]

\* the array the consumer sees in the scope of request r: the content of the
\* stage's buffer, left there by the last op applied to it
Batch(r) == Rows(issued[shmBuf[req[r].stage].data + 1])

\* get_generator: "for row in batch_copy: yield row" over the batches
RECURSIVE Flatten(_)
Flatten(batches) ==
    IF batches = <<>> THEN <<>> ELSE Head(batches) \o Flatten(Tail(batches))

\* the rows the generator has yielded
StreamRows == Flatten(out)

\* get_queue with its parameters: the notify callback, the Reader, the
\* StagePool of read_ahead stages, the request_spool thread
StreamCfgs ==
    {[notify |-> IF o THEN "noop" ELSE "pool", qlen |-> QueueLen, ordered |-> o,
      cyclic |-> c, remainder |-> rm, len |-> n, bs |-> BlockSize, timeout |-> TRUE] :
        o \in BOOLEAN, c \in BOOLEAN, rm \in BOOLEAN, n \in (BlockSize + 1)..MaxLen}

StreamInit ==
    /\ ReaderInit
    /\ cfg \in StreamCfgs
    /\ RingInit
    /\ strm = [pc |-> "run", i |-> 0, stop |-> FALSE]
    /\ issued = <<>>
    /\ stagePool = [j \in 1..NStages |-> j]
    /\ cons = [pc |-> "idle", r |-> -1]
    /\ got = <<>>
    /\ out = <<>>
    /\ SegInit
    /\ NoConsumers
    /\ NoExpr
    /\ NoLegacy

\* the Reader's state the Streamer's threads leave alone
StreamFrame == UNCHANGED <<closeEv, stopEv, bufHeld, notifyQ, shmBuf, caller, wk, monDone,
                           dispPc, ctl, cfg, ringVars, segVars, thrVars, opVars, legacyVars>>

\* request_spool: one round of the loop that issues a request: Reader.request
\* (close check, StagePool._acquire, registration, put_async), then
\* request_pool.add(req) when ordered, then the cursor moves
SubmitIssue ==
    /\ strm.pc = "run"
    /\ ~strm.stop
    /\ NextBlock(strm.i) # NoBlock
    /\ ~closeEv
    /\ stagePool # <<>>
    /\ Len(issued) < MaxIssue
    /\ LET id == nextReqId
           s == Head(stagePool)
           p == PutAsync(reqQ, putBuf, RequestDetails(id, s, "ok"))
       IN /\ stagePool' = Tail(stagePool)
          /\ IF stageLock[s]
             THEN /\ strm' = [strm EXCEPT !.pc = "finally"]
                  /\ UNCHANGED <<stageLock, req, openReqs, nextReqId, reqQ, putBuf, issued,
                                 reqPool>>
             ELSE /\ stageLock' = TryLock(stageLock, s)
                  /\ req' = [r \in ReqIds |->
                               IF r = id
                               THEN [NewRequest(s) EXCEPT
                                       !.overlap = LiveOn(s) # {}, !.early = ~closeCalled]
                               ELSE IF r \in LiveOn(s) THEN [req[r] EXCEPT !.overlap = TRUE]
                               ELSE req[r]]
                  /\ openReqs' = openReqs \cup {id}
                  /\ nextReqId' = nextReqId + 1
                  /\ reqQ' = p.q
                  /\ putBuf' = p.buf
                  /\ issued' = Append(issued, NextBlock(strm.i))
                  /\ reqPool' = IF cfg.ordered THEN Append(reqPool, id) ELSE reqPool
                  /\ strm' = [strm EXCEPT !.i = NextCursor(strm.i)]
    /\ UNCHANGED <<cl, cons, got, out>>
    /\ StreamFrame

\* request_spool: StagePool._acquire times out on the empty pool, queue.Empty
\* is caught and the round starts again
SubmitEmpty ==
    /\ strm.pc = "run"
    /\ ~strm.stop
    /\ NextBlock(strm.i) # NoBlock
    /\ ~closeEv
    /\ stagePool = <<>>
    /\ UNCHANGED vars

\* request_spool: Reader.request raises RuntimeError on the closed reader,
\* which leaves the loop through finally
SubmitRefused ==
    /\ strm.pc = "run"
    /\ ~strm.stop
    /\ NextBlock(strm.i) # NoBlock
    /\ closeEv
    /\ strm' = [strm EXCEPT !.pc = "finally"]
    /\ UNCHANGED <<stageLock, req, openReqs, nextReqId, reqQ, putBuf, issued, reqPool,
                   stagePool, cl, cons, got, out>>
    /\ StreamFrame

\* request_spool: the loop ends on the stop event or on break
SubmitEnd ==
    /\ strm.pc = "run"
    /\ strm.stop \/ NextBlock(strm.i) = NoBlock
    /\ strm' = [strm EXCEPT !.pc = "finally"]
    /\ UNCHANGED <<stageLock, req, openReqs, nextReqId, reqQ, putBuf, issued, reqPool,
                   stagePool, cl, cons, got, out>>
    /\ StreamFrame

\* request_spool, finally: request_pool.add(QueueClosed) when ordered, then
\* self._dataset_reader.close() is called
SubmitFinally ==
    /\ strm.pc = "finally"
    /\ reqPool' = IF cfg.ordered THEN Append(reqPool, -1) ELSE reqPool
    /\ cl' = [cl EXCEPT !["sub"] = "check"]
    /\ strm' = [strm EXCEPT !.pc = "closing"]
    /\ UNCHANGED <<stageLock, req, openReqs, nextReqId, reqQ, putBuf, issued,
                   stagePool, cons, got, out>>
    /\ StreamFrame

\* Streamer.Queue.get: RequestPool.next() takes the head of the pool;
\* QueueClosed is added again and returned (iter() ends), a request is
\* returned as its get_proxy() guard
QueueGet ==
    /\ cons.pc = "idle"
    /\ reqPool # <<>>
    /\ got' = Append(got, Head(reqPool))
    /\ IF Head(reqPool) = -1
       THEN /\ reqPool' = Append(Tail(reqPool), -1)
            /\ cons' = [pc |-> "end", r |-> -1]
       ELSE /\ reqPool' = Tail(reqPool)
            /\ cons' = [pc |-> "scope", r |-> Head(reqPool)]
    /\ UNCHANGED <<stageLock, req, openReqs, nextReqId, reqQ, putBuf, issued,
                   stagePool, cl, strm, out>>
    /\ StreamFrame

\* the consumer's "with guard as batch: batch.copy()": get_unsafe waits for
\* the request, the batch is copied, the scope's end releases the stage and
\* StagePool._return appends it; a failed request raises out of the scope
QueueScope ==
    /\ cons.pc = "scope"
    /\ req[cons.r].ready
    /\ req' = [req EXCEPT ![cons.r].acc = @ + 2]
    /\ stageLock' = Unlock(stageLock, req[cons.r].stage)
    /\ stagePool' = Append(stagePool, req[cons.r].stage)
    /\ IF req[cons.r].exc = "none"
       THEN /\ out' = Append(out, Batch(cons.r))
            /\ cons' = [pc |-> "idle", r |-> -1]
       ELSE /\ cons' = [pc |-> "end", r |-> -1]
            /\ UNCHANGED out
    /\ UNCHANGED <<openReqs, nextReqId, reqQ, putBuf, issued, reqPool, cl, strm, got>>
    /\ StreamFrame

\* Streamer.Queue.close: self.stop.set()
QueueClose ==
    /\ ~strm.stop
    /\ strm' = [strm EXCEPT !.stop = TRUE]
    /\ UNCHANGED <<stageLock, req, openReqs, nextReqId, reqQ, putBuf, issued, reqPool,
                   stagePool, cl, cons, got, out>>
    /\ StreamFrame

\* a Streamer queue: the Reader's processes and threads (nobody calls stop()),
\* request_spool and the consumer; read_ahead may exceed queue_len
StreamNext ==
    \/ \E w \in Procs : WorkerServe(w)
    \/ \E w \in Procs : WorkerClosed(w)
    \/ \E w \in Procs : WorkerNotify(w)
    \/ \E w \in Procs : WorkerReput(w)
    \/ Monitor
    \/ Dispatch
    \/ BufferPop
    \/ BufferPut
    \/ \E k \in Closers : CloseCheck(k)
    \/ \E k \in Closers : CloseSet(k)
    \/ \E k \in Closers : ClosePut(k)
    \/ SubmitIssue
    \/ SubmitEmpty
    \/ SubmitRefused
    \/ SubmitEnd
    \/ SubmitFinally
    \/ QueueGet
    \/ QueueScope
    \/ QueueClose

SpecStream == StreamInit /\ [][StreamNext]_vars

\* get_queue(cyclic=True): block_size is the length of the example batch
\* h5_node[:length], so it is between 1 and the length of the dataset
CyclicCfgs ==
    {[notify |-> IF o THEN "noop" ELSE "pool", qlen |-> QueueLen, ordered |-> o,
      cyclic |-> TRUE, remainder |-> TRUE, len |-> n, bs |-> b, timeout |-> TRUE] :
        o \in BOOLEAN, b \in 1..MaxBlock, n \in MinLen..MaxLen}

CyclicInit ==
    /\ ReaderInit
    /\ cfg \in {c \in CyclicCfgs : c.bs <= c.len}
    /\ RingInit
    /\ strm = [pc |-> "run", i |-> 0, stop |-> FALSE]
    /\ issued = <<>>
    /\ stagePool = [j \in 1..NStages |-> j]
    /\ cons = [pc |-> "idle", r |-> -1]
    /\ got = <<>>
    /\ out = <<>>
    /\ SegInit
    /\ NoConsumers
    /\ NoExpr
    /\ NoLegacy

\* a cyclic Streamer queue
SpecCyclic == CyclicInit /\ [][StreamNext]_vars

\* a consumer that calls Queue.get again after a guard has raised
QueueRetry ==
    /\ cons.pc = "end"
    /\ got # <<>>
    /\ got[Len(got)] # -1
    /\ cons' = [pc |-> "idle", r |-> -1]
    /\ UNCHANGED <<stageLock, req, openReqs, nextReqId, reqQ, putBuf, issued, reqPool,
                   stagePool, cl, strm, got, out>>
    /\ StreamFrame

LiveNext ==
    \/ StreamNext
    \/ QueueRetry

\* every process and thread that can run does run: each worker process, the
\* monitor, notify_spool, _buffer_thread, a thread inside close(),
\* request_spool, and the consumer, which keeps calling get(); nothing
\* obliges the user to call Queue.close()
LiveFair ==
    /\ \A w \in Procs :
          WF_vars(WorkerServe(w) \/ WorkerClosed(w) \/ WorkerNotify(w) \/ WorkerReput(w))
    /\ WF_vars(Monitor)
    /\ WF_vars(Dispatch)
    /\ WF_vars(BufferPop \/ BufferPut)
    /\ \A k \in Closers : WF_vars(CloseCheck(k) \/ CloseSet(k) \/ ClosePut(k))
    /\ WF_vars(SubmitIssue \/ SubmitRefused \/ SubmitEnd \/ SubmitFinally)
    /\ WF_vars(QueueGet \/ QueueScope \/ QueueRetry)

SpecLive == StreamInit /\ [][LiveNext]_vars /\ LiveFair

\* a Streamer queue one of whose worker processes may be killed
CrashNext ==
    \/ StreamNext
    \/ \E w \in Procs : WorkerDie(w)

SpecCrash == StreamInit /\ [][CrashNext]_vars

\* ------------------------------------------------------------- consumer threads
\* what the consumer threads of a queue leave alone
ManyFrame ==
    UNCHANGED <<closeEv, stopEv, reqQ, putBuf, bufHeld, notifyQ, nextReqId, openReqs,
                shmBuf, caller, wk, monDone, dispPc, cl, ctl, cfg, ringVars, segVars,
                opVars, legacyVars, strm, issued, cons>>

\* a Queue.get that keeps the sentinel it has taken
Readd_keep(pool) == pool

\* Streamer.Queue.get: self._pool.add(QueueClosed)
Readd(pool) == Append(pool, -1)

\* Streamer.Queue.get by the thread c: RequestPool.next() pops the head of
\* the pool under the condition (it waits while the pool is empty)
ManyGet(c) ==
    /\ cthr[c].pc = "idle"
    /\ reqPool # <<>>
    /\ reqPool' = Tail(reqPool)
    /\ IF Head(reqPool) = -1
       THEN /\ cthr' = [cthr EXCEPT ![c].pc = "readd"]
            /\ UNCHANGED got
       ELSE /\ cthr' = [cthr EXCEPT ![c].pc = "scope", ![c].r = Head(reqPool)]
            /\ got' = Append(got, Head(reqPool))
    /\ UNCHANGED <<req, stageLock, stagePool, out>>
    /\ ManyFrame

\* Streamer.Queue.get: next_req is QueueClosed, it is added to the pool
\* again and returned; the loop of the thread ends
ManyReadd(c) ==
    /\ cthr[c].pc = "readd"
    /\ reqPool' = Readd(reqPool)
    /\ cthr' = [cthr EXCEPT ![c].pc = "end", ![c].loops = @ + 1]
    /\ UNCHANGED <<req, stageLock, stagePool, got, out>>
    /\ ManyFrame

\* the thread's "with guard as batch: batch.copy()" and result.append under
\* the lock: get_unsafe waits for the request, the scope's end releases the
\* stage and returns it to the pool; a failed request raises out of the loop
ManyScope(c) ==
    /\ cthr[c].pc = "scope"
    /\ req[cthr[c].r].ready
    /\ req' = [req EXCEPT ![cthr[c].r].acc = @ + 2]
    /\ stageLock' = Unlock(stageLock, req[cthr[c].r].stage)
    /\ stagePool' = Append(stagePool, req[cthr[c].r].stage)
    /\ IF req[cthr[c].r].exc = "none"
       THEN /\ out' = Append(out, Batch(cthr[c].r))
            /\ cthr' = [cthr EXCEPT ![c].pc = "idle", ![c].r = -1]
       ELSE /\ cthr' = [cthr EXCEPT ![c].pc = "raised", ![c].r = -1]
            /\ UNCHANGED out
    /\ UNCHANGED <<reqPool, got>>
    /\ ManyFrame

\* a thread whose loop has ended on QueueClosed starts another loop
ManyAgain(c) ==
    /\ cthr[c].pc = "end"
    /\ cthr[c].loops < MaxLoops
    /\ cthr' = [cthr EXCEPT ![c].pc = "idle"]
    /\ UNCHANGED <<req, stageLock, stagePool, reqPool, got, out>>
    /\ ManyFrame

\* get_queue on a dataset of MaxLen rows, not cyclic, without the remainder,
\* ordered or not, with read_ahead from 1 to NStages, and the threads that
\* will share the queue
ManyInit ==
    /\ ReaderInit
    /\ cfg \in {x \in StreamCfgs : ~x.cyclic /\ ~x.remainder /\ x.len = MaxLen}
    /\ RingInit
    /\ strm = [pc |-> "run", i |-> 0, stop |-> FALSE]
    /\ issued = <<>>
    /\ stagePool \in {[j \in 1..n |-> j] : n \in 1..NStages}
    /\ cons = [pc |-> "none", r |-> -1]
    /\ got = <<>>
    /\ out = <<>>
    /\ SegInit
    /\ cthr = [c \in Consumers |-> [pc |-> "idle", r |-> -1, loops |-> 0]]
    /\ NoExpr
    /\ NoLegacy

\* a Streamer queue shared by several consumer threads
ManyNext ==
    \/ \E w \in Procs : WorkerServe(w)
    \/ \E w \in Procs : WorkerClosed(w)
    \/ \E w \in Procs : WorkerNotify(w)
    \/ \E w \in Procs : WorkerReput(w)
    \/ Monitor
    \/ Dispatch
    \/ BufferPop
    \/ BufferPut
    \/ \E k \in Closers : CloseCheck(k)
    \/ \E k \in Closers : CloseSet(k)
    \/ \E k \in Closers : ClosePut(k)
    \/ SubmitIssue
    \/ SubmitEmpty
    \/ SubmitRefused
    \/ SubmitEnd
    \/ SubmitFinally
    \/ \E c \in Consumers : ManyGet(c)
    \/ \E c \in Consumers : ManyReadd(c)
    \/ \E c \in Consumers : ManyScope(c)
    \/ \E c \in Consumers : ManyAgain(c)

SpecMany == ManyInit /\ [][ManyNext]_vars

\* ------------------------------------------------------------- legacy Barrier
\* the read processes of the legacy Streamer.get_queue(cyclic=True)
Parties == 1..NParties

\* everything but the barrier
BarrierFrame ==
    UNCHANGED <<closeEv, stopEv, reqQ, putBuf, bufHeld, notifyQ, nextReqId, openReqs,
                req, stageLock, shmBuf, caller, wk, monDone, dispPc, cl, ctl, reqPool,
                cfg, ringVars, streamVars, segVars, thrVars, opVars, cbq, cbthr>>

\* Barrier.wait: self.barrier_A, self.barrier_B = self.barrier_B, self.barrier_A
Other(b) == 3 - b

\* BarrierImpl.wait up to the first test of the loop: under cvar the count
\* goes up by one and all are notified; the process goes on when the count
\* has reached n_procs and waits on cvar when not
BarrierArrive(p) ==
    /\ bproc[p].pc = "run"
    /\ LET b == bproc[p].cur
           c == bcount[b] + 1
       IN /\ bcount' = [bcount EXCEPT ![b] = c]
          /\ bproc' = [bproc EXCEPT ![p].pc = IF c < NParties THEN "wait" ELSE "pass"]
    /\ BarrierFrame

\* BarrierImpl.wait: cvar.wait() has returned and the loop finds the count
\* at n_procs
BarrierWake(p) ==
    /\ bproc[p].pc = "wait"
    /\ bcount[bproc[p].cur] >= NParties
    /\ bproc' = [bproc EXCEPT ![p].pc = "pass"]
    /\ UNCHANGED bcount
    /\ BarrierFrame

\* Barrier.wait after barrier_A.wait(): the process swaps its two barriers
\* and resets the one it will wait on next, then reads on until its next
\* wrap (rounds counts the waits it has come through, up to MaxRounds)
BarrierSwap(p) ==
    /\ bproc[p].pc = "pass"
    /\ bcount' = [bcount EXCEPT ![Other(bproc[p].cur)] = 0]
    /\ bproc' = [bproc EXCEPT ![p] =
                    [pc |-> "run", cur |-> Other(@.cur),
                     rounds |-> IF @.rounds < MaxRounds THEN @.rounds + 1 ELSE @.rounds]]
    /\ BarrierFrame

\* Barrier(n_procs) and the forked processes, each with its own copy of the
\* Barrier object over the two shared counts
BarrierInit ==
    /\ ReaderInit
    /\ \A w \in Procs : wk[w].pc = "loop"
    /\ cfg = ReaderCfg
    /\ RingInit
    /\ StreamIdle
    /\ SegInit
    /\ NoConsumers
    /\ NoExpr
    /\ bcount = <<0, 0>>
    /\ bproc = [p \in Parties |-> [pc |-> "run", cur |-> 1, rounds |-> 0]]
    /\ cbq = [write |-> <<>>, read |-> <<>>]
    /\ cbthr = <<>>

BarrierNext ==
    \/ \E p \in Parties : BarrierArrive(p)
    \/ \E p \in Parties : BarrierWake(p)
    \/ \E p \in Parties : BarrierSwap(p)

\* every process keeps running: it calls wait again and again and takes its
\* step whenever it can
SpecBarrier ==
    /\ BarrierInit
    /\ [][BarrierNext]_vars
    /\ \A p \in Parties : WF_vars(BarrierArrive(p) \/ BarrierWake(p) \/ BarrierSwap(p))

\* ------------------------------------------------------------- legacy SharedCircBuf
\* the read processes that write into the buffer and the threads that read it
Writers == 1..NWriters
Readers == (NWriters + 1)..(NWriters + NReaders)
Elems == 0..(CircSize - 1)

\* SafeQueue.__init__: size += 1, one place more for the QueueClosed signal
Cap == CircSize + 1

\* SafeQueue.put: QueueClosed is stored as -2
ClosedVal == -2

\* SafeQueue.__init__: vals[:] = -1, tail = 0, size = 0
SafeQueue == [vals |-> [j \in 0..(Cap - 1) |-> -1], tail |-> 0, size |-> 0]

\* SafeQueue.put: vals[(tail + size) % len(vals)] = v; size += 1
SafePut(q, v) ==
    [q EXCEPT !.vals[(q.tail + q.size) % Cap] = v, !.size = @ + 1]

\* SafeQueue.get, the value: vals[tail]
SafeHead(q) == q.vals[q.tail]

\* a get that leaves the item in the queue
SafeGet_peek(q) == q

\* SafeQueue.get, the queue after it: tail = (tail + 1) % len(vals); size -= 1
SafeGet(q) == [q EXCEPT !.tail = (@ + 1) % Cap, !.size = @ - 1]

\* the items of a SafeQueue, tail first
Items(q) == [j \in 1..q.size |-> q.vals[(q.tail + j - 1) % Cap]]

\* SharedCircBuf.__init__: every element index is put into write_queue
RECURSIVE Filled(_, _)
Filled(q, n) == IF n = 0 THEN q ELSE SafePut(Filled(q, n - 1), n - 1)

\* everything but the circular buffer
CircFrame ==
    UNCHANGED <<closeEv, stopEv, reqQ, putBuf, bufHeld, notifyQ, nextReqId, openReqs,
                req, stageLock, shmBuf, caller, wk, monDone, dispPc, cl, ctl, reqPool,
                cfg, ringVars, streamVars, segVars, thrVars, opVars, bcount, bproc>>

\* put_direct's Guard.__enter__ -> __put_idx: write_queue.get() (waits for an
\* item); QueueClosed is still to be put back, an index is the guard's
WriterEnter(t) ==
    /\ cbthr[t].pc = "idle"
    /\ cbq.write.size > 0
    /\ cbq' = [cbq EXCEPT !.write = SafeGet(@)]
    /\ cbthr' = [cbthr EXCEPT ![t] =
                    IF SafeHead(cbq.write) = ClosedVal
                    THEN [pc |-> "reput", idx |-> -1]
                    ELSE [pc |-> "guard", idx |-> SafeHead(cbq.write)]]
    /\ CircFrame

\* __put_idx: self.write_queue.put(QueueClosed); raise Closed, which ends the
\* read process
WriterReput(t) ==
    /\ t \in Writers
    /\ cbthr[t].pc = "reput"
    /\ cbq' = [cbq EXCEPT !.write = SafePut(@, ClosedVal)]
    /\ cbthr' = [cbthr EXCEPT ![t].pc = "closed"]
    /\ CircFrame

\* put_direct's Guard.__exit__: the element has been written,
\* read_queue.put(idx)
WriterExit(t) ==
    /\ t \in Writers
    /\ cbthr[t].pc = "guard"
    /\ cbq' = [cbq EXCEPT !.read = SafePut(@, cbthr[t].idx)]
    /\ cbthr' = [cbthr EXCEPT ![t] = [pc |-> "idle", idx |-> -1]]
    /\ CircFrame

\* get_direct -> __get_idx: read_queue.get() (waits for an item); an index
\* goes into the Guard get_direct returns
ReaderEnter(t) ==
    /\ cbthr[t].pc = "idle"
    /\ cbq.read.size > 0
    /\ cbq' = [cbq EXCEPT !.read = SafeGet(@)]
    /\ cbthr' = [cbthr EXCEPT ![t] =
                    IF SafeHead(cbq.read) = ClosedVal
                    THEN [pc |-> "reput", idx |-> -1]
                    ELSE [pc |-> "guard", idx |-> SafeHead(cbq.read)]]
    /\ CircFrame

\* __get_idx: self.read_queue.put(QueueClosed); get_direct returns
\* QueueClosed (and may be called again)
ReaderReput(t) ==
    /\ t \in Readers
    /\ cbthr[t].pc = "reput"
    /\ cbq' = [cbq EXCEPT !.read = SafePut(@, ClosedVal)]
    /\ cbthr' = [cbthr EXCEPT ![t].pc = "idle"]
    /\ CircFrame

\* get_direct's Guard.__exit__: the element has been read,
\* write_queue.put(idx)
ReaderExit(t) ==
    /\ t \in Readers
    /\ cbthr[t].pc = "guard"
    /\ cbq' = [cbq EXCEPT !.write = SafePut(@, cbthr[t].idx)]
    /\ cbthr' = [cbthr EXCEPT ![t] = [pc |-> "idle", idx |-> -1]]
    /\ CircFrame

\* SharedCircBuf.close, called once: read_queue.put(QueueClosed), then
\* write_queue.put(QueueClosed)
CircCloseRead ==
    /\ cbq.closing = "no"
    /\ cbq' = [cbq EXCEPT !.read = SafePut(@, ClosedVal), !.closing = "read"]
    /\ UNCHANGED cbthr
    /\ CircFrame

CircCloseWrite ==
    /\ cbq.closing = "read"
    /\ cbq' = [cbq EXCEPT !.write = SafePut(@, ClosedVal), !.closing = "done"]
    /\ UNCHANGED cbthr
    /\ CircFrame

\* SharedCircBuf(queue_size, ary_template) with its writers and readers
CircInit ==
    /\ ReaderInit
    /\ \A w \in Procs : wk[w].pc = "loop"
    /\ cfg = ReaderCfg
    /\ RingInit
    /\ StreamIdle
    /\ SegInit
    /\ NoConsumers
    /\ NoExpr
    /\ bcount = <<0, 0>>
    /\ bproc = <<>>
    /\ cbq = [write |-> Filled(SafeQueue, CircSize), read |-> SafeQueue, closing |-> "no"]
    /\ cbthr = [t \in Writers \cup Readers |-> [pc |-> "idle", idx |-> -1]]

CircNext ==
    \/ \E t \in Writers : WriterEnter(t)
    \/ \E t \in Writers : WriterReput(t)
    \/ \E t \in Writers : WriterExit(t)
    \/ \E t \in Readers : ReaderEnter(t)
    \/ \E t \in Readers : ReaderReput(t)
    \/ \E t \in Readers : ReaderExit(t)
    \/ CircCloseRead
    \/ CircCloseWrite

SpecCirc == CircInit /\ [][CircNext]_vars

\* ------------------------------------------------------------- claims
\* C1: a request is notified at most once, with result metadata and no failure
\* or with a failure and no metadata, and its entry is in the pending table
\* exactly until the step that notifies it.
C1_NotifiedOnce ==
    \A r \in Issued :
        /\ req[r].cnt <= 1
        /\ req[r].cnt = 1 =>
              /\ r \notin openReqs
              /\ req[r].ready
              /\ req[r].meta <=> req[r].exc = "none"
        /\ req[r].cnt = 0 => (~req[r].ready /\ r \in openReqs)

\* one request was notified with its result and another with a failure
C1_Witness ==
    \E r1, r2 \in Issued :
        /\ req[r1].cnt = 1 /\ req[r1].meta
        /\ req[r2].cnt = 1 /\ req[r2].exc # "none"

\* C2 (as a final result): once the dispatch thread, the only thread that sets
\* readiness events, has ended, every request returned by Reader.request has
\* its readiness event set; otherwise an accessor of that request waits forever.
C2_NoneLeftWaiting ==
    dispPc \in {"done", "dead"} => \A r \in Issued : req[r].ready

\* a result notification for r exists: held by a worker, in the notification
\* queue, or dispatched
HasResultNote(r) ==
    \/ req[r].ready /\ req[r].meta
    \/ \E i \in 1..Len(notifyQ) : notifyQ[i] = ResultNote(r)
    \/ \E w \in Procs : wk[w].out = ResultNote(r)

\* C3: with requests in flight on distinct stages, a result notification for r
\* exists only after a worker wrote r's result into the buffer of r's stage,
\* and until r's stage is released no worker writes into that buffer again.
C3_OwnBuffer ==
    \A r \in Issued :
        (HasResultNote(r) /\ req[r].acc < 2 /\ ~req[r].overlap)
            => shmBuf[req[r].stage].data = r

\* C4: while a request holds a stage (from its acquisition until its result
\* scope is left) the stage lock is taken, so that any other request on the
\* stage raises RuntimeError, and no second request holds the stage.
C4_SingleTenant ==
    \A s \in Stages :
        LiveOn(s) # {} => (stageLock[s] /\ Cardinality(LiveOn(s)) <= 1)

\* C10: a request that Reader.request returned before close() was called is not
\* notified with QueueClosedException (as long as stop() is not called).
C10_Graceful ==
    \A r \in Issued :
        (req[r].early /\ ~ctl.stopCalled) => req[r].exc # "closed"

\* C5: two values put by one thread with blocking puts are dequeued in the
\* order of the puts, whether they fit a block or go through the side channel.
C5_FifoPerThread ==
    \A i, j \in 1..Len(sqOut) :
        (i < j /\ sqOut[i].p = sqOut[j].p) => sqOut[i].k < sqOut[j].k

\* C6: with ordered=True Queue.get returns the requests in the order the
\* submitter issued them, whatever order the workers finish in: the j-th
\* request returned is the j-th issued, the j-th batch is the rows of the j-th
\* issued block (increasing start when not cyclic), and row i of a cyclic
\* stream is source row i mod L
C6_Ordered ==
    cfg.ordered =>
        /\ \A j \in 1..Len(got) : got[j] # -1 => got[j] = j - 1
        /\ \A j \in 1..Len(out) : out[j] = Rows(issued[j])
        /\ ~cfg.cyclic => \A j \in 1..Len(out) : \A h \in 1..(j - 1) : out[h][1] < out[j][1]
        /\ \A i \in 1..Len(StreamRows) : StreamRows[i] = (i - 1) % cfg.len

\* C6 happens: an ordered cyclic stream has gone twice round the dataset
\* through a block that wraps, its second request finished before its first
C6_Witness ==
    /\ cfg.ordered /\ cfg.cyclic
    /\ cfg.len % cfg.bs # 0
    /\ Len(StreamRows) >= 2 * cfg.len
    /\ \E j \in 1..Len(issued) : issued[j].d > 0 /\ j <= Len(out)

\* the number of batches equal to the rows of the block blk
Deliveries(blk) == Cardinality({j \in 1..Len(out) : out[j] = Rows(blk)})

\* C7: with ordered=False and cyclic=False, once QueueClosed has been
\* delivered every issued block has been delivered exactly once and no block
\* is issued afterwards
C7_Permutation ==
    (~cfg.ordered /\ ~cfg.cyclic /\ \E j \in 1..Len(got) : got[j] = -1) =>
        /\ strm.pc # "run"
        /\ Len(out) = Len(issued)
        /\ \A k \in 1..Len(issued) : Deliveries(issued[k]) = 1

\* the blocks request_spool is to issue without cyclic: floor(L/b) full
\* slices and, with remainder and L mod b # 0, the rest
ExpectedBlocks ==
    LET full == cfg.len \div cfg.bs
        rest == IF cfg.remainder /\ cfg.len % cfg.bs # 0 THEN 1 ELSE 0
    IN [k \in 1..(full + rest) |->
          IF k <= full THEN Block((k - 1) * cfg.bs, k * cfg.bs, 0, 0)
          ELSE Block(full * cfg.bs, cfg.len, 0, 0)]

\* request_spool left its loop by break: not stopped, not refused
RanToEnd == strm.pc # "run" /\ ~strm.stop /\ dispPc \in {"run", "done"}

\* C8: without cyclic the submitter issues the slices [k*b, (k+1)*b) in order,
\* then with remainder the rest [floor(L/b)*b, L) iff L mod b # 0, and nothing
\* else; a submitter that ran to the end has issued all of them
C8_IssuedSlices ==
    ~cfg.cyclic =>
        /\ Len(issued) <= Len(ExpectedBlocks)
        /\ \A k \in 1..Len(issued) : issued[k] = ExpectedBlocks[k]
        /\ RanToEnd => issued = ExpectedBlocks

\* C8 happens: the remainder block was issued last
C8_Witness ==
    /\ ~cfg.cyclic /\ cfg.remainder /\ cfg.len % cfg.bs # 0
    /\ RanToEnd
    /\ Len(issued) = cfg.len \div cfg.bs + 1
    /\ issued[Len(issued)] = Block((cfg.len \div cfg.bs) * cfg.bs, cfg.len, 0, 0)

\* the number of times source row x is among the first n rows of the stream
Times(x, n) == Cardinality({i \in 1..n : StreamRows[i] = x})

\* C9: in a cyclic unordered stream, for k*L a multiple of b, the first k*L
\* rows of the generator hold every source row exactly k times
C9_CyclesComplete ==
    (cfg.cyclic /\ ~cfg.ordered) =>
        \A k \in 1..MaxIssue :
            ((k * cfg.len) % cfg.bs = 0 /\ Len(StreamRows) >= k * cfg.len) =>
                \A x \in 0..(cfg.len - 1) : Times(x, k * cfg.len) = k

\* close() or stop() has returned to its caller: the controlling thread is
\* back from a call, or notify_spool is past its own close()
CloseReturned ==
    \/ ctl.calls > 0 /\ cl["ctl"] = "idle"
    \/ dispPc = "dead" /\ closeEv

\* C11: a Reader.request that starts after close() or stop() has returned
\* raises RuntimeError and goes no further: the stage is not acquired, no
\* entry is added to the pending table, no descriptor is enqueued
C11_RefusedAfterClose ==
    [][\A c \in Callers :
          (CloseReturned /\ caller[c].pc = "idle" /\ caller'[c] # caller[c]) =>
              /\ caller'[c].pc = "idle"
              /\ caller'[c].err = "RuntimeError"
              /\ UNCHANGED <<stageLock, openReqs, nextReqId, reqQ, putBuf>>]_vars

\* C11 happens: before any request was issued close() returned and a request
\* was refused
C11_Witness ==
    /\ CloseReturned
    /\ nextReqId = 0
    /\ \E c \in Callers : caller[c].pc = "idle" /\ caller[c].err = "RuntimeError"

\* no process or thread of the Reader can take a step
ReaderAtRest == ~ENABLED ReaderNext

\* C12 (as a final result): once stop() has set the stop event and the
\* Reader's processes and threads have come to rest, every worker has exited
\* and every request still pending at stop() has been notified
C12_StopCompletes ==
    (stopEv /\ ReaderAtRest /\ \A c \in Callers : caller[c].pc = "idle") =>
        /\ \A w \in Procs : wk[w].pc = "done"
        /\ \A r \in Issued : req[r].ready

\* C13 (as a final result): after close(), without stop(), once the Reader's
\* processes and threads have come to rest every worker has put QueueClosed
\* back and exited, the monitor has pushed (QueueClosed,) and the dispatch
\* thread has ended
C13_CloseDrains ==
    (closeEv /\ ~ctl.stopCalled /\ ReaderAtRest /\ \A c \in Callers : caller[c].pc = "idle") =>
        /\ \A w \in Procs : wk[w].pc = "done"
        /\ monDone
        /\ dispPc \in {"done", "dead"}

\* notify_spool takes a failure that carries the req_id r
TakesFailureOf(r) ==
    /\ dispPc = "run"
    /\ notifyQ # <<>>
    /\ Head(notifyQ) = ExcNote(r)
    /\ notifyQ' = Tail(notifyQ)

\* C14: a failure raised while a worker executes request r is dispatched to r
\* alone: r is notified with the failure and leaves the pending table, every
\* other request and table entry stays as it is, the dispatch thread goes on;
\* and the worker that caught the failure returns to its loop
C14_LocalFailure ==
    [][/\ \A r \in ReqIds : TakesFailureOf(r) =>
              /\ req'[r].ready /\ req'[r].exc = "error" /\ ~req'[r].meta
              /\ \A q \in ReqIds \ {r} : req'[q] = req[q]
              /\ openReqs' = openReqs \ {r}
              /\ dispPc' = "run"
       /\ \A w \in Procs :
              (wk[w].pc = "notify" /\ wk[w].out.t = "exc" /\ wk'[w] # wk[w]) =>
                  wk'[w].pc = "loop"]_vars

\* C14 happens: a request failed in a worker and a request issued after it
\* was completed with its result
C14_Witness ==
    \E r1, r2 \in Issued :
        /\ r1 < r2
        /\ req[r1].exc = "error"
        /\ req[r2].ready /\ req[r2].meta

\* C15 (as a final result): once notify_spool has handled a failure without
\* req_id (every pending request notified, table emptied, Reader closed, thread
\* ended) and no request() call is under way, the pending table is empty and
\* no returned request is without a notification
C15_FatalClearsAll ==
    (dispPc = "dead" /\ \A c \in Callers : caller[c].pc = "idle") =>
        /\ closeEv
        /\ openReqs = {}
        /\ \A r \in Issued : req[r].ready

\* the worker w takes a descriptor whose result is larger than its stage
ServesLarge(w) ==
    /\ wk[w].pc = "loop"
    /\ reqQ # <<>>
    /\ Head(reqQ).op = "large"
    /\ wk'[w] # wk[w]

\* the dispatch thread takes the SharedMemoryError notification of request r
TakesOversizeOf(r) ==
    /\ dispPc = "run"
    /\ notifyQ # <<>>
    /\ Head(notifyQ) = ExcNoteOf(r, "SharedMemoryError")
    /\ notifyQ' = Tail(notifyQ)

\* C16: a request whose result is larger than the payload of its stage is
\* never written into the shared buffer: the worker that serves it leaves
\* every buffer as it was and sends a SharedMemoryError notification for that
\* request, the dispatch thread fails that request only, and an access to the
\* request raises an instance of SharedMemoryError
C16_OversizeRefused ==
    [][/\ \A w \in Procs :
            ServesLarge(w) =>
                /\ shmBuf' = shmBuf
                /\ wk'[w].pc = "notify"
                /\ wk'[w].out = ExcNoteOf(Head(reqQ).id, "SharedMemoryError")
       /\ \A r \in ReqIds :
            TakesOversizeOf(r) =>
                /\ req'[r].ready /\ ~req'[r].meta
                /\ req'[r].exc = "SharedMemoryError"
                /\ \A q \in ReqIds \ {r} : req'[q] = req[q]
       /\ \A r \in Issued :
            (req[r].exc = "SharedMemoryError" /\ req'[r].acc > req[r].acc) =>
                "SharedMemoryError" \in req'[r].raised]_vars

\* an oversize request was served, notified and accessed, and its stage
\* holds no result while another request got its result
C16_Witness ==
    \E r, q \in Issued :
        /\ req[r].exc = "SharedMemoryError"
        /\ "SharedMemoryError" \in req[r].raised
        /\ shmBuf[req[r].stage].data # r
        /\ req[q].meta /\ shmBuf[req[q].stage].data = q

\* C17: an access to a request that was notified with a failure raises a
\* SubprocessException whose class inherits from the class of the original
\* error, and leaves the stage of the request released
C17_FailedAccess ==
    [][\A r \in Issued :
          (req[r].exc # "none" /\ req'[r].acc > req[r].acc) =>
              /\ {"SubprocessException", req[r].exc} \subseteq req'[r].raised
              /\ ~stageLock'[req[r].stage]]_vars

\* no thread of the Streamer can take a step: request_spool can only retry
\* on the empty pool, the consumer is blocked or has ended
StreamAtRest ==
    ~ENABLED (SubmitIssue \/ SubmitRefused \/ SubmitEnd \/ SubmitFinally \/ QueueGet \/ QueueScope)

\* C18: in a stream one of whose workers was killed in the middle of a
\* request while the other workers are healthy and the dispatch thread has
\* met no failure, when nothing can move any more (nobody having closed the
\* queue) the consumer has left its loop and every request was notified, in
\* ordered and in unordered mode
C18_SurvivesCrash ==
    (/\ \E w \in Procs : wk[w].pc = "dead"
     /\ \A w \in Procs : wk[w].pc \in {"dead", "done", "loop"}
     /\ dispPc \in {"run", "done"}
     /\ Len(issued) < MaxIssue
     /\ ~strm.stop
     /\ ReaderAtRest
     /\ StreamAtRest) =>
        /\ cons.pc = "end"
        /\ \A r \in Issued : req[r].ready

\* C19: once the master handle of a segment is closed, every attacher sees
\* is_unlinked() true from then on, and once every worker has had its
\* request-queue timeouts no worker holds an attachment to that segment
C19_UnlinkedSeen ==
    \A s \in Stages :
        shmMaster[s] = "closed" =>
            /\ (\E w \in Procs : shmAtt[s][w] = "attached") => IsUnlinked(s)
            /\ (~ENABLED SegNext) => \A w \in Procs : shmAtt[s][w] # "attached"

\* the thread c is inside StagePool._acquire
InAcquire(c) == caller[c].pc = "acquire" /\ caller[c].stage = 0

\* C20: StagePool acquire hands out only a stage of the pool that no request
\* holds; on the empty pool it hands out nothing, and raises Empty only when
\* the pool has a timeout, leaving the pool as it is; the end of a result
\* scope appends the stage of the request to the pool
C20_PoolHandsFree ==
    [][/\ \A c \in Callers :
            (InAcquire(c) /\ nextReqId' = nextReqId + 1) =>
                /\ stagePool # <<>>
                /\ LiveOn(Head(stagePool)) = {}
                /\ req'[nextReqId].stage = Head(stagePool)
                /\ stagePool' = Tail(stagePool)
       /\ \A c \in Callers :
            (InAcquire(c) /\ stagePool = <<>> /\ caller'[c] # caller[c]) =>
                /\ cfg.timeout
                /\ caller'[c].err = "Empty"
                /\ stagePool' = stagePool
       /\ \A r \in Issued :
            (req'[r].acc > req[r].acc /\ req'[r].acc % 2 = 0) =>
                stagePool' = Append(stagePool, req[r].stage)]_vars

\* some thread has been handed QueueClosed by Streamer.Queue.get
SentinelSeen == \E c \in Consumers : cthr[c].pc = "end" \/ cthr[c].loops > 0

\* C21: once Streamer.Queue.get has returned QueueClosed to one thread, the
\* sentinel is at the head of the pool or in the hands of a thread that is
\* putting it back, and every later get() of any thread takes the sentinel
\* and no request
C21_SentinelStays ==
    /\ [](SentinelSeen =>
            \/ reqPool # <<>> /\ \A j \in 1..Len(reqPool) : reqPool[j] = -1
            \/ \E c \in Consumers : cthr[c].pc = "readd")
    /\ [][\A c \in Consumers :
            (SentinelSeen /\ cthr[c].pc = "idle" /\ cthr'[c] # cthr[c]) =>
                cthr'[c].pc = "readd"]_vars

\* two threads have ended on QueueClosed, one of them in its second loop
C21_Witness ==
    \E c, d \in Consumers :
        /\ c # d
        /\ cthr[c].pc = "end" /\ cthr[c].loops = 2
        /\ cthr[d].pc = "end"
        /\ got # <<>>

\* no action of the Reader, of request_spool or of a consumer thread is enabled
ManyAtRest == ~ENABLED ManyNext

\* C22: with several threads calling get() on one queue, no request is
\* handed out twice, and when a stream that ran to its end has come to rest
\* every thread has ended on QueueClosed and the batches the threads have
\* collected are the issued blocks, each once
C22_SharedQueue ==
    /\ \A i, j \in 1..Len(got) : i # j => got[i] # got[j]
    /\ (RanToEnd /\ ManyAtRest) =>
          /\ \A c \in Consumers : cthr[c].pc = "end"
          /\ Len(out) = Len(issued)
          /\ \A k \in 1..Len(issued) : Deliveries(issued[k]) = 1

\* the scope of the proxy of request r is left in this step
LeavesScope(r) == req[r].proxy = "live" /\ req'[r].proxy = "released"

Closing == {k \in Closers : cl[k] \in {"set", "put"}}

\* C24: whatever close() and stop() calls are made on one Reader, one call
\* only passes the test of the close event and puts the QueueClosed sentinel,
\* a call made on a closed Reader changes nothing but its own position, and a
\* call that has returned leaves the Reader closed
C24_CloseOnce ==
    /\ [](/\ Cardinality(Closing) <= 1
          /\ \A k \in Closers : cl[k] = "set" => ~closeEv
          /\ CloseReturned => closeEv)
    /\ [][\A k \in Closers :
            (cl[k] = "check" /\ closeEv /\ cl'[k] # cl[k]) =>
                UNCHANGED <<closeEv, stopEv, reqQ, putBuf, bufHeld, notifyQ, openReqs, req>>]_vars

\* the trailing members of a tuple key are all ':' or Ellipsis
TrailingPlain(key) ==
    \A i \in 2..Len(key.items) : key.items[i] = FullSlice \/ key.items[i] = EllipsisKey

\* the key of the indexing step being taken
StepKey == dsexpr'[Len(dsexpr')]

\* C25: indexing a column op with an int gives the ReadScalarOp of the
\* column, with a slice or with a tuple of a slice followed only by ':' and
\* Ellipsis the ReadOp of the column over that slice, with a coordinate list
\* the CoordOp of the column; indexing a ReadOp without column with a str
\* gives the same ReadOp with that column; so D.col('A')[30:35],
\* D[30:35]['A'] and D['A'][30:35] are all ReadOp(col 'A', 30, 35)
C25_FusedOps ==
    /\ [][(dsop.cls = "ColOp" /\ dsop.index = <<>> /\ Len(dsexpr') = Len(dsexpr) + 1) =>
            /\ StepKey.kind = "int" => dsop' = ReadScalarOpTable(dsop.col, StepKey.start)
            /\ StepKey.kind = "slice" =>
                   dsop' = ReadOpTable(dsop.col, StepKey.start, StepKey.stop, StepKey.step)
            /\ (StepKey.kind = "tuple" /\ StepKey.items[1].kind = "slice"
                    /\ TrailingPlain(StepKey)) =>
                   dsop' = ReadOpTable(dsop.col, StepKey.items[1].start,
                                       StepKey.items[1].stop, StepKey.items[1].step)
            /\ StepKey.kind = "list" => dsop' = CoordOp(dsop.col)]_vars
    /\ [][(dsop.cls = "ReadOpTable" /\ dsop.col = NoCol /\ dsop.index = <<>>
             /\ Len(dsexpr') = Len(dsexpr) + 1 /\ StepKey.kind = "str") =>
            dsop' = ReadOpTable(StepKey.name, dsop.start, dsop.stop, dsop.step)]_vars
    /\ [](dsexpr \in {<<Key("col", None, None, None, "A", <<>>), Slice(30, 35, None)>>,
                      <<Slice(30, 35, None), StrKey("A")>>,
                      <<StrKey("A"), Slice(30, 35, None)>>}
            => dsop = ReadOpTable("A", 30, 35, None))

\* the messages of the request queue that are not yet dequeued: the ring, then
\* what _buffer_thread holds, then _put_buffer
Pending == reqQ \o (IF bufHeld = NoMsg THEN <<>> ELSE <<bufHeld>>) \o putBuf

\* C26: the descriptors the submitter thread enqueues with put_async, and the
\* QueueClosed it enqueues with put when it closes the Reader, stand in the
\* request queue in the order it enqueued them, those that went through
\* _put_buffer included: no descriptor is ahead of one issued before it, and
\* none is behind the sentinel of the thread's own close()
C26_AsyncFifo ==
    /\ \A i, j \in 1..Len(Pending) :
          (i < j /\ Pending[i].t = "req" /\ Pending[j].t = "req") =>
              Pending[i].id < Pending[j].id
    /\ (cl["disp"] = "idle" /\ dispPc # "dead") =>
          \A i, j \in 1..Len(Pending) :
              (i < j /\ Pending[i] = QCMsg) => Pending[j].t # "req"

\* the indices of the occupied blocks that carry the side-channel flag, from
\* the tail on
Flagged == SelectSeq([i \in 1..sqSize |-> (sqTail + i - 1) % RingLen],
                     LAMBDA i : sqSlots[i].flag)

\* C27: the bytes in the side channel are, in order, those of the puts that
\* wrote the flagged blocks of the ring, taken from the tail on, so that a
\* flagged block yields the bytes of its own put when it is dequeued, also
\* with several producers putting oversize values
C27_SideOrder ==
    /\ Len(sqSide) <= Len(Flagged)
    /\ \A i \in 1..Len(sqSide) : sqSide[i] = sqSlots[Flagged[i]].by

\* how often the value m stands in the sequence s
Count(s, m) == Cardinality({i \in 1..Len(s) : s[i] = m})

\* the places where the value m is on its way from put to get_direct: with a
\* thread that has not yet put all of it, in _put_buffer (but for a head whose
\* block and bytes are in and which is about to be popped), in an unflagged
\* block of the ring, in the side channel, or handed out by get_direct
Copies(m) ==
    Cardinality({q \in DOMAIN sqProd : sqProd[q].m = m /\ sqProd[q].pc \notin {"idle", "wait"}})
    + Count(putBuf, m)
    - (IF \E q \in Producers : sqProd[q].pc = "pop" /\ putBuf # <<>> /\ Head(putBuf) = m
       THEN 1 ELSE 0)
    + Cardinality({i \in 1..sqSize :
          /\ ~sqSlots[(sqTail + i - 1) % RingLen].flag
          /\ sqSlots[(sqTail + i - 1) % RingLen].data = m})
    + Count(sqSide, m)
    + Count(sqOut, m)

TakesStagedKey(w) ==
    /\ wk[w].pc = "loop" /\ wk'[w].pc = "notify"
    /\ reqQ # <<>> /\ reqQ' = Tail(reqQ)
    /\ Head(reqQ).op = "staged"

\* C29: a worker that dequeues a descriptor without key reads the key and its
\* length from the stage only after the requester has written both: at that
\* step the stage holds the key of that request and the requester is past
\* its writes
C29_KeyWritten ==
    [][\A w \in Procs :
          TakesStagedKey(w) =>
              /\ shmBuf[TargetBuffer(Head(reqQ))].key = Head(reqQ).id
              /\ \A c \in Callers :
                    ~(caller[c].pc = "writekey" /\ caller[c].id = Head(reqQ).id)]_vars

\* the bytes of the payload a write covers
Extent(w) == {i \in w.lo..(w.hi - 1) : TRUE}

\* C30: the key of a request is left out of the descriptor and stored in the
\* stage exactly when elem_size < len(key) + 50 and len(key) <= stage_size - 4,
\* and travels inline otherwise; the key and its 4-byte length are written
\* inside the payload and over disjoint bytes; and a worker that serves the
\* request recovers exactly the bytes of its key
C30_KeyInStage ==
    /\ \A i \in 1..Len(Pending) :
          LET d == Pending[i] IN
          ~d.op.inline <=> (QueueElemSize < d.op.klen + 50 /\ d.op.klen <= cfg.size - 4)
    /\ \A s \in Stages : \A i, j \in 1..Len(shmBuf[s]) :
          /\ 0 <= shmBuf[s][i].lo /\ shmBuf[s][i].hi <= cfg.size
          /\ (i # j /\ shmBuf[s][i].id = shmBuf[s][j].id) =>
                Extent(shmBuf[s][i]) \cap Extent(shmBuf[s][j]) = {}
    /\ \A w \in Procs : wk[w].out.id >= 0 => wk[w].out.exact

\* C31: the flag byte of a segment is 0 while its master handle is open and 1
\* from the master's close on, the name is unlinked only after the flag is 1,
\* and no step of an attacher changes the flag
C31_FlagFollowsMaster ==
    /\ [](\A s \in Stages :
            /\ shmMaster[s] = "open" => shmFlag[s] = 0
            /\ shmMaster[s] \in {"flagged", "closed"} => shmFlag[s] = 1)
    /\ [][\A s \in Stages :
            /\ shmAtt'[s] # shmAtt[s] => shmFlag'[s] = shmFlag[s]
            /\ (shmMaster'[s] = "closed" /\ shmMaster[s] # "closed") =>
                  (shmMaster[s] = "flagged" /\ shmFlag[s] = 1)]_vars

\* C32: a stage of a StagePool is never twice in the free deque, never held
\* by two outstanding requests and never both free and held, and no step
\* changes the number of places (deque entries and holders) a stage is in
C32_OnePlace ==
    /\ [](\A s \in Stages :
            Count(stagePool, s) + Cardinality(LiveOn(s)) <= 1)
    /\ [][\A s \in Stages :
            Count(stagePool', s) + Cardinality({r \in ReqIds :
                    r < nextReqId' /\ req'[r].stage = s /\ req'[r].acc < 2})
              = Count(stagePool, s) + Cardinality(LiveOn(s))]_vars

\* the requests the submitter has issued whose stage the consumer has not
\* released yet
Unreleased == {r \in Issued : req[r].acc < 2}

\* the start index of the block request_spool asks for next, read off the
\* blocks it has issued
Resume ==
    IF issued = <<>> THEN 0
    ELSE LET last == issued[Len(issued)]
         IN IF last.d > 0 THEN last.d ELSE last.b

\* C33: at most read_ahead issued requests have their stage unreleased;
\* while read_ahead of them do, request_spool issues nothing; and a round that
\* issues nothing (a StagePool timeout) leaves the cursor where it was, so the
\* cursor is always the end of the last issued block
C33_ReadAhead ==
    /\ [](/\ Cardinality(Unreleased) <= NStages
          /\ strm.pc = "run" => strm.i = Resume)
    /\ [][/\ Cardinality(Unreleased) = NStages => nextReqId' = nextReqId
          /\ stagePool = <<>> => nextReqId' = nextReqId
          /\ nextReqId' = nextReqId => strm'.i = strm.i]_vars

\* all stages are held and request_spool, with a block left to ask for, has
\* run into the empty pool
C33_Witness ==
    /\ strm.pc = "run"
    /\ ~strm.stop
    /\ ~closeEv
    /\ stagePool = <<>>
    /\ Cardinality(Unreleased) = NStages
    /\ NextBlock(strm.i) # NoBlock
    /\ strm.i > 0

\* the block is the plain slice [a, b) or the joined slices [a, L) and [0, d),
\* as request_spool builds it for a start index a with a + block_size > L
WrapsAt(blk) ==
    /\ blk.a + cfg.bs > cfg.len
    /\ blk.b = cfg.len
    /\ blk.c = 0
    /\ blk.d = cfg.bs - (cfg.len - blk.a)

\* C34: in cyclic mode every issued block, and every batch the consumer gets,
\* has block_size rows; a block that would pass the end is the joined slices
\* [start, L) and [0, block_size - (L - start)) and the next block starts at
\* block_size - (L - start); the cursor stays within 0..L; and request_spool
\* leaves its loop only on the stop event, on the closed reader or on an error
C34_CyclicBlocks ==
    /\ [](/\ \A k \in 1..Len(issued) :
                /\ Len(Rows(issued[k])) = cfg.bs
                /\ 0 <= issued[k].a /\ issued[k].a <= cfg.len
                /\ IF issued[k].a + cfg.bs > cfg.len
                   THEN WrapsAt(issued[k])
                   ELSE issued[k] = Block(issued[k].a, issued[k].a + cfg.bs, 0, 0)
                /\ k < Len(issued) =>
                       issued[k + 1].a = IF issued[k].a + cfg.bs > cfg.len
                                         THEN cfg.bs - (cfg.len - issued[k].a)
                                         ELSE issued[k].a + cfg.bs
          /\ \A k \in 1..Len(out) : Len(out[k]) = cfg.bs
          /\ 0 <= strm.i /\ strm.i <= cfg.len)
    /\ [][(strm.pc = "run" /\ strm'.pc # "run") =>
             \/ strm.stop
             \/ closeEv
             \/ stagePool # <<>> /\ stageLock[Head(stagePool)]]_vars

\* a cyclic queue has issued a block that wraps around the end of the dataset
\* and the block after it, and the consumer has a batch of the wrapped block
C34_Witness ==
    /\ cfg.cyclic
    /\ \E k \in 1..Len(issued) :
          /\ issued[k].a < cfg.len
          /\ issued[k].d > 0
          /\ k < Len(issued)
          /\ \E j \in 1..Len(out) : out[j] = Rows(issued[k])

\* C35: once request_spool has left its loop the Reader gets closed and the
\* consumer, calling get() again and again, receives QueueClosed
C35_EndReachesConsumer ==
    (strm.pc # "run") ~> (closeEv /\ \E k \in 1..Len(got) : got[k] = -1)

\* the blocks of the ring that hold a value not yet dequeued
Occupied == {(sqTail + j) % RingLen : j \in 0..(sqSize - 1)}

\* C36: 0 <= size <= queue_len and 0 <= tail < queue_len in every state; a
\* block is placed only while size < queue_len and a value is taken only
\* while size > 0 (the assertions of _place_block, _put_shared and
\* get_direct), and the block a put writes holds no value that is still to be
\* dequeued
C36_RingBounds ==
    /\ [](/\ 0 <= sqSize /\ sqSize <= RingLen
          /\ 0 <= sqTail /\ sqTail < RingLen)
    /\ [][/\ sqSize' > sqSize => (sqSize < RingLen /\ sqSize' = sqSize + 1)
          /\ sqSize' < sqSize => (sqSize > 0 /\ sqSize' = sqSize - 1)
          /\ \A i \in 0..(RingLen - 1) :
                sqSlots'[i] # sqSlots[i] => i \notin Occupied]_vars

\* the ring is full with its tail past the first block: the next put has to
\* wait, and the last put wrote a block before the tail
C36_Witness ==
    /\ sqSize = RingLen
    /\ sqTail > 0
    /\ sqOut # <<>>

\* the ring as get and put see it: indices, blocks, side channel and the
\* values handed out
RingState == <<sqTail, sqSize, sqSlots, sqSide, sqOut>>

\* C37: a call of put(block=False) on the full ring raises Full and a call of
\* get_direct(block=False) on the empty ring raises Empty, the ring being left
\* as it was; a call of get_direct(block=False) that finds a flagged block at
\* the tail and nothing in the side channel raises Empty and leaves the tail,
\* the size and the blocks as they were
C37_NonBlocking ==
    [][/\ \A p \in Producers :
            (sqProd'[p].k # sqProd[p].k /\ sqSize >= RingLen) =>
                (sqProd'[p].err = "Full" /\ RingState' = RingState)
       /\ (sqProd'[Getter].k # sqProd[Getter].k /\ sqSize = 0) =>
                (sqProd'[Getter].err = "Empty" /\ RingState' = RingState)
       /\ (/\ sqProd'[Getter].k # sqProd[Getter].k
           /\ sqSize > 0
           /\ sqSlots[sqTail].flag
           /\ sqSide = <<>>) =>
                (sqProd'[Getter].err = "Empty" /\ RingState' = RingState)]_vars

\* the ring is full, a put has raised Full, and the last get_direct has raised
\* Empty on the flagged block that is still at the tail, its bytes not yet in
\* the side channel
C37_Witness ==
    /\ sqSize = RingLen
    /\ \E p \in Producers : sqProd[p].err = "Full"
    /\ sqProd[Getter].err = "Empty"
    /\ sqProd[Getter].from = "side"
    /\ sqSlots[sqTail].flag
    /\ sqSide = <<>>

\* C38: a call of Reader.request that raises after Stage._acquire has
\* succeeded (the lock was free and the call ends with an error) leaves the
\* stage's lock free and the pending table as it was
C38_FailedRequestClean ==
    [][\A c \in Callers :
          (/\ caller[c].pc = "acquire"
           /\ ~stageLock[caller[c].stage]
           /\ caller'[c].pc = "idle"
           /\ caller'[c].err # "none") =>
              (~stageLock'[caller[c].stage] /\ openReqs' = openReqs)]_vars

\* C39: a process that waits at the Barrier gets through it, in the first
\* round and in every later one, as long as all n_procs processes keep
\* calling wait
C39_BarrierPasses ==
    \A p \in Parties : (bproc[p].pc = "wait") ~> (bproc[p].pc # "wait")

\* the number of places element i of the circular buffer is in: entries of
\* the two queues and guards of writers and readers
Places(i) ==
    Count(Items(cbq.write), i) + Count(Items(cbq.read), i)
      + Cardinality({t \in Writers \cup Readers : cbthr[t].pc = "guard" /\ cbthr[t].idx = i})

\* C40: every element index of a SharedCircBuf is in exactly one place (the
\* write queue, the read queue, the guard of a writer or the guard of a
\* reader), neither queue holds more items than it has room for, and no put
\* is made into a queue that is full
C40_OneToken ==
    /\ [](/\ \A i \in Elems : Places(i) = 1
          /\ cbq.write.size <= Cap
          /\ cbq.read.size <= Cap)
    /\ [][/\ cbq'.write.size > cbq.write.size => cbq.write.size < Cap
          /\ cbq'.read.size > cbq.read.size => cbq.read.size < Cap]_vars

\* the buffer has been closed while a writer holds one element and a reader
\* another, and the read queue holds the QueueClosed signal
C40_Witness ==
    /\ cbq.closing = "done"
    /\ \E w \in Writers, r \in Readers :
          /\ cbthr[w].pc = "guard"
          /\ cbthr[r].pc = "guard"
          /\ cbthr[w].idx # cbthr[r].idx
    /\ Count(Items(cbq.read), ClosedVal) = 1

====
